---------------------------- MODULE Spec2Model ----------------------------
(***************************************************************************)
(* Verification model of the fantasy-recap single-page application.        *)
(*                                                                         *)
(* The client is a set of React function components and hooks.  Three      *)
(* facts about the React runtime shape every component model below:        *)
(*                                                                         *)
(*  1. A callback created during a render reads the state values of that   *)
(*     render (its closure).  Each component therefore has a committed     *)
(*     record (what the last render saw, what closures read, what the      *)
(*     rendered controls show) and a next record (the committed state      *)
(*     with every queued setState applied).                                *)
(*  2. setState called from an effect, a timer or the continuation of an   *)
(*     awaited promise only queues the update: it changes the next record  *)
(*     and a later render commits it.                                      *)
(*  3. setState called synchronously inside a user event (click, input)    *)
(*     is rendered before the next event is dispatched, and that render    *)
(*     applies only the updates of the event: updates queued earlier at    *)
(*     default priority stay queued.                                       *)
(*                                                                         *)
(* The server and the relational store are outside the client; where a     *)
(* property needs them they are modelled from the schema document and the  *)
(* interface description.                                                  *)
(***************************************************************************)
EXTENDS Integers, Sequences, FiniteSets, TLC

VARIABLES
    \* ---- YahooLeagueConnection -------------------------------------------
    yc,         \* committed component state (useState values of the last render;
                \* error, which no handler or control reads, is kept in yn only)
    yn,         \* component state with the queued updates applied
    yEff,       \* dependency values seen by the last run of the effects
    yTimers,    \* code -> number of armed 5-minute expiry timers
    yCalls,     \* asynchronous call chains in flight (token exchange, import, list)
    yPosts,     \* code -> number of POSTs to /fantasy/yahoo/callback issued
    ySubmitted, \* history: code -> number of clicks that submitted the code,
                \* from the click that posted it on; 0 once a timer removed it
    yGets,      \* number of effect-started GET /leagues/ requests in flight
    yAuthReqs,  \* number of GET /fantasy/yahoo/auth-url requests in flight
    yAttempts,  \* popup attempts started by connectYahoo
    yWindows,   \* popup window id -> "open" | "closed"
    yEvents,    \* number of environment events so far (bounds the run)
    yUrl,       \* query parameters of window.location when the component mounted
    \* ---- RecapEditor -----------------------------------------------------
    ec,         \* committed component state
    en,         \* component state with the queued updates applied
    eTimers,    \* timer id -> state read by the handleAutoSave it will call
    ePrev,      \* autoSaveTimeout read by the last run of the auto-save effect
    eSaves,     \* onSave calls whose promise is pending
    eInvoked,   \* history: revisions onSave was ever called with
    eDone,      \* history: revisions of the onSave calls that were fulfilled
    eRecap,     \* the recap prop
    eAlerts,    \* the alert(..) dialogs shown so far, in order
    eRoute,     \* where the router is: the editor page or the dashboard
    eEvents,    \* number of user events so far (bounds the run)
    \* ---- useApi ----------------------------------------------------------
    aProps,     \* endpoint, immediate and deps of the last render
    aState,     \* the hook's state { data, loading, error }
    aReqs,      \* fetchData calls that have not finished
    aStarted,   \* history: fetchData calls made by the effect / through refetch
    aIssued,    \* history: GET requests issued for the effect / for refetch
    aEvents,    \* number of host events so far (bounds the run)
    \* ---- useApiMutation (useDeleteRecap in RecapsOverview) ----------------
    mState,     \* the hook's state { loading, error }
    mCalls,     \* handleDeleteRecap calls that have not finished
    mDeleting,  \* deletingRecapId of RecapsOverview
    mEvents,    \* number of clicks so far (bounds the run)
    \* ---- RecapsOverview pagination (useRecaps) ---------------------------
    pPage,      \* currentPage
    pState,     \* useApi state { data, loading, error } of useRecaps
    pReqs,      \* GET /recaps requests in flight: the page each asked for
    pStore,     \* number of recaps the API holds for the user
    pFailed,    \* pages whose request failed since the user last acted
    pEvents,    \* number of host events so far (bounds the run)
    \* ---- the recap store and the requests that write it -------------------
    sRows,      \* rows of generated_recaps
    sLeagues,   \* ids of the rows of fantasy_leagues
    sReqs,      \* write requests in flight
    sLog,       \* what the API answered, per kind and (league, week, season)
    sEvents,     \* number of requests so far (bounds the run)
    \* ---- useWebSocket ---------------------------------------------------
    wEnv,       \* enabled and user of the last render
    wSockets,   \* every WebSocket created so far: its state and its render
    wRef,       \* wsRef.current: an index of wSockets, 0 for null
    wCount,     \* reconnectCountRef.current
    wTimerRef,  \* reconnectTimeoutRef.current: the socket that armed it, or 0
    wTimers,    \* reconnect timers that are pending
    wState,     \* { isConnected, error } (error: whether one is set)
    wMounted,   \* the component is mounted
    wWanted,    \* connect() was called by the effect or the consumer, and
                \* disconnect() was not called since
    wEvents,     \* number of host events so far (bounds the run)
    \* ---- the tables of the ownership chain ------------------------------
    dLeagues,   \* rows of fantasy_leagues: id, user_id
    dRecaps,    \* rows of generated_recaps: id, user_id, league_id, week
    dAwards,    \* rows of weekly_awards: id, user_id, league_id
    dWinners,   \* rows of award_winners: id, award_id, week
    dEvents,     \* statements run so far
    \* ---- useLeagueSyncWebSocket ----------------------------------------
    lLast,      \* lastMessage of the last render
    lNext,      \* lastMessage as set by the last setLastMessage
    lSync,      \* syncStatuses: league id -> data
    lSeen,      \* history: league id -> data of the last update delivered
    lEvents,     \* messages delivered so far
    \* ---- RecapExporter --------------------------------------------------
    xDoc,       \* the document in the editor: blocks of text runs
    xTitle,     \* title of the editor component
    xExports,   \* history: the exportAsMarkdown calls and their results
    xEvents     \* number of events so far (bounds the run)

yVars == <<yc, yn, yEff, yTimers, yCalls, yPosts, ySubmitted, yGets, yAuthReqs,
           yAttempts, yWindows, yEvents, yUrl>>

eVars == <<ec, en, eTimers, ePrev, eSaves, eInvoked, eDone, eRecap, eAlerts,
           eRoute, eEvents>>

aVars == <<aProps, aState, aReqs, aStarted, aIssued, aEvents>>

mVars == <<mState, mCalls, mDeleting, mEvents>>

pVars == <<pPage, pState, pReqs, pStore, pFailed, pEvents>>

sVars == <<sRows, sLeagues, sReqs, sLog, sEvents>>

wVars == <<wEnv, wSockets, wRef, wCount, wTimerRef, wTimers, wState, wMounted, wWanted, wEvents>>

dVars == <<dLeagues, dRecaps, dAwards, dWinners, dEvents>>

lVars == <<lLast, lNext, lSync, lSeen, lEvents>>

xVars == <<xDoc, xTitle, xExports, xEvents>>

vars == <<yVars, eVars, aVars, mVars, pVars, sVars, wVars, dVars, lVars, xVars>>

NULL == "null"

\* Update a record with the fields of another (a batch of setState calls).
SetFields(rec, upd) ==
    [f \in DOMAIN rec |-> IF f \in DOMAIN upd THEN upd[f] ELSE rec[f]]

\* Remove the element at position i of a sequence.
RemoveAt(s, i) == [j \in 1..(Len(s) - 1) |-> IF j < i THEN s[j] ELSE s[j + 1]]


(***************************************************************************)
(*                       YahooLeagueConnection                             *)
(***************************************************************************)

MaxYEvents == 2        \* environment events per run (clicks, typing, timeouts)

Codes == {"ABC123", "DEF456"}
NoSession == "none"
Sessions == {"s1", "s2"}

\* Text the user can paste into the callback textarea, as token sequences:
\* the part before the query is one token, the delimiters ? & = are tokens.
UrlBase == "https://app/callback"
Blank == <<>>
ManualInputs ==
    { <<UrlBase, "?", "code", "=", "ABC123", "&", "state", "=", "xyz">>,
      <<UrlBase, "?", "state", "=", "xyz", "&", "code", "=", "ABC123">>,
      <<UrlBase, "?", "state", "=", "xyz", "&", "code", "=">>,
      <<" ", "app/callback", "?", "code", "=", "DEF456">> }

\* String.prototype.trim: drop leading and trailing whitespace.
RECURSIVE TrimLeft(_)
TrimLeft(u) == IF u # <<>> /\ Head(u) = " " THEN TrimLeft(Tail(u)) ELSE u
RECURSIVE TrimRight(_)
TrimRight(u) ==
    IF u # <<>> /\ u[Len(u)] = " " THEN TrimRight(SubSeq(u, 1, Len(u) - 1)) ELSE u
Trim(u) == TrimRight(TrimLeft(u))

\* new URL(text) throws unless the text is an absolute URL.
UrlParses(u) == Trim(u) # <<>> /\ Head(Trim(u)) = UrlBase

\* url.search without the leading "?".
RECURSIVE AfterFirst(_, _)
AfterFirst(u, sep) ==
    IF u = <<>> THEN <<>>
    ELSE IF Head(u) = sep THEN Tail(u) ELSE AfterFirst(Tail(u), sep)
UrlQuery(u) == AfterFirst(Trim(u), "?")

\* Split a token sequence at every occurrence of sep.
RECURSIVE SplitOn(_, _)
SplitOn(q, sep) ==
    IF q = <<>> THEN << <<>> >>
    ELSE LET rest == SplitOn(Tail(q), sep)
         IN IF Head(q) = sep THEN << <<>> >> \o rest
            ELSE << <<Head(q)>> \o Head(rest) >> \o Tail(rest)

\* URLSearchParams.get(name): the value of the first pair called name.
RECURSIVE FirstValue(_, _)
FirstValue(pairs, name) ==
    IF pairs = <<>> THEN NULL
    ELSE LET p == Head(pairs)
         IN IF p # <<>> /\ p[1] = name
            THEN (IF Len(p) >= 3 /\ p[2] = "=" THEN p[3] ELSE "")
            ELSE FirstValue(Tail(pairs), name)
SearchParamsGet(q, name) == FirstValue(SplitOn(q, "&"), name)

\* `if (!code)`: null and the empty string are both falsy.
Falsy(v) == v = NULL \/ v = ""

\* Messages the component shows.
ErrExpired == "Authorization code expired. Please try connecting to Yahoo again"
ErrAuthGeneric == "Yahoo authentication failed"
ErrAuthThrow == "Failed to process Yahoo authentication"
ErrServerDetail == "server detail"
ErrInvalidUrl == "Invalid URL format"
ErrNoCode == "No authorization code found in URL"
ErrEnterUrl == "Please enter the callback URL"
ErrImport == "Failed to import Yahoo leagues"
ErrImportThrow == "Error importing Yahoo leagues"
ErrFetch == "Failed to fetch leagues"
ErrFetchThrow == "Error fetching leagues"
ErrPopupBlocked == "Popup blocked"
ErrAuthUrl == "Failed to get Yahoo authorization URL"
ErrConnect == "Error connecting to Yahoo"

YInitState ==
    [ loading |-> FALSE, error |-> NULL, connectingYahoo |-> FALSE,
      showManualAuth |-> FALSE, callbackUrl |-> Blank,
      processedCodes |-> {}, pcNew |-> FALSE, session |-> NoSession, leagues |-> 0 ]

\* The Yahoo component as one value, so that a handler, the render it causes
\* and the effects of that render compose as functions.
YWorld ==
    [ c |-> yc, n |-> yn, eff |-> yEff, timers |-> yTimers, calls |-> yCalls,
      posts |-> yPosts, submitted |-> ySubmitted, gets |-> yGets ]

YSet(w) ==
    /\ yc' = w.c
    /\ yn' = w.n
    /\ yEff' = w.eff
    /\ yTimers' = w.timers
    /\ yCalls' = w.calls
    /\ yPosts' = w.posts
    /\ ySubmitted' = w.submitted
    /\ yGets' = w.gets

\* A batch of setState calls: queued, and also committed when it is made
\* synchronously inside a user event.
YSeen(st) == [st EXCEPT !.error = NULL, !.pcNew = FALSE]

YUpd(w, sync, upd) ==
    [w EXCEPT !.n = SetFields(@, upd),
              !.c = IF sync THEN YSeen(SetFields(@, upd)) ELSE @]

\* setProcessedCodes(prev => new Set(prev).add(code)).  The updater returns a
\* new Set object; pcNew (in the next record only) says that a queued update
\* will replace the object the committed render holds.
YAddCode(w, sync, code) ==
    [w EXCEPT
       !.n = SetFields(@, [processedCodes |-> @.processedCodes \cup {code},
                           pcNew |-> sync => @.pcNew]),
       !.c = IF sync
             THEN SetFields(@, [processedCodes |-> @.processedCodes \cup {code}])
             ELSE @]

\* handleYahooCallback up to its first await.  The guard reads processedCodes
\* of the render that created the callback (w.c).
\* Mutation: the handler without its processed-codes guard.
YGuardAlwaysPasses(w, code) == TRUE

YGuardPasses(w, code) == code \notin w.c.processedCodes

handleYahooCallback(w, code, state, via, sync) ==
    IF ~YGuardPasses(w, code) THEN w
    ELSE LET w1 == YUpd(w, sync, [loading |-> TRUE, error |-> NULL])
             w2 == YAddCode(w1, sync, code)
         IN [w2 EXCEPT
               !.timers[code] = @ + 1,
               !.calls = Append(@, [code |-> code, state |-> state,
                                    via |-> via, phase |-> "exchange"]),
               !.posts[code] = @ + 1,
               !.submitted[code] = IF via = "manual" THEN 1 ELSE @]

\* fetchLeagues up to its first await (the caller has a session).
fetchLeaguesStart(w) == YUpd(w, FALSE, [loading |-> TRUE])

\* The effects of a render, in declaration order: the league list effect
\* (deps user, session, fetchLeagues) and the URL query-parameter effect
\* (deps session, handleYahooCallback).  handleYahooCallback is a new function
\* whenever the access token or the processedCodes object changed (pcChanged:
\* this render holds a new processedCodes object).
YEffects(w, pcChanged) ==
    LET sessChanged == w.c.session # w.eff.session
        cbChanged == sessChanged \/ pcChanged
        w1 == IF sessChanged /\ w.c.session # NoSession
              THEN [fetchLeaguesStart(w) EXCEPT !.gets = @ + 1]
              ELSE w
        w2 == IF cbChanged /\ ~Falsy(yUrl.code) /\ w.c.session # NoSession
              THEN handleYahooCallback(w1, yUrl.code, yUrl.state, "url", FALSE)
              ELSE w1
    IN [w2 EXCEPT !.eff = [session |-> w.c.session]]

\* A render at default priority commits every queued update.
YCommit(w) ==
    YEffects([w EXCEPT !.c = YSeen(w.n), !.n.pcNew = FALSE], w.n.pcNew)

\* The render that ends a user event whose handler took w0 to w1.
YSyncRender(w0, w1) == YEffects(w1, w1.c.processedCodes # w0.c.processedCodes)

\* Environment events are counted to bound the run; everything else is free.
YOthers == UNCHANGED <<eVars, aVars, mVars, pVars, sVars, wVars, dVars, lVars, xVars>>
YEvent == yEvents < MaxYEvents /\ yEvents' = yEvents + 1 /\ YOthers
YFree == UNCHANGED yEvents /\ YOthers
YPopupSame == UNCHANGED <<yAuthReqs, yAttempts, yWindows>>

YRender ==
    /\ yc # YSeen(yn)
    /\ YSet(YCommit(YWorld))
    /\ UNCHANGED yUrl
    /\ YPopupSame

\* The auth provider delivers a session (sign-in or token refresh).
YSessionChange(s) ==
    /\ s # yn.session
    /\ yn' = [yn EXCEPT !.session = s]
    /\ UNCHANGED <<yc, yEff, yTimers, yCalls, yPosts, ySubmitted, yGets, yUrl>>
    /\ YPopupSame

\* The 5-minute timer of handleYahooCallback removes its code.
YExpire(code) ==
    /\ yTimers[code] > 0
    /\ yTimers' = [yTimers EXCEPT ![code] = @ - 1]
    /\ yn' = SetFields(yn, [processedCodes |-> yn.processedCodes \ {code},
                            pcNew |-> TRUE])
    /\ ySubmitted' = [ySubmitted EXCEPT ![code] = 0]
    /\ UNCHANGED <<yc, yEff, yCalls, yPosts, yGets, yUrl>>
    /\ YPopupSame

\* The manual form is rendered for a signed-in user without leagues.
YManualFormShown == yc.session # NoSession /\ yc.leagues = 0 /\ yc.showManualAuth

YTypeCallbackUrl(u) ==
    /\ YManualFormShown
    /\ u # yc.callbackUrl
    /\ YSet(YSyncRender(YWorld, YUpd(YWorld, TRUE, [callbackUrl |-> u])))
    /\ UNCHANGED yUrl
    /\ YPopupSame

\* processManualCallback, run by a click on "Complete Connection".
processManualCallback(w) ==
    IF Trim(w.c.callbackUrl) = <<>>
    THEN YUpd(w, TRUE, [error |-> ErrEnterUrl])
    ELSE IF ~UrlParses(w.c.callbackUrl)
    THEN YUpd(w, TRUE, [loading |-> FALSE, error |-> ErrInvalidUrl])
    ELSE LET code == SearchParamsGet(UrlQuery(w.c.callbackUrl), "code")
             state == SearchParamsGet(UrlQuery(w.c.callbackUrl), "state")
         IN IF Falsy(code)
            THEN YUpd(w, TRUE, [loading |-> FALSE, error |-> ErrNoCode])
            ELSE LET w1 == YUpd(w, TRUE, [loading |-> TRUE, error |-> NULL])
                 IN IF YGuardPasses(w, code)
                    THEN handleYahooCallback(w1, code, state, "manual", TRUE)
                    \* the handler returned at once: the lines after the await
                    ELSE [YUpd(w1, FALSE, [showManualAuth |-> FALSE,
                                           callbackUrl |-> Blank,
                                           loading |-> FALSE])
                            EXCEPT !.submitted[code] = IF @ > 0 THEN @ + 1 ELSE 0]

YManualClick ==
    /\ YManualFormShown
    /\ ~yc.loading
    /\ Trim(yc.callbackUrl) # <<>>
    /\ YSet(YSyncRender(YWorld, processManualCallback(YWorld)))
    /\ UNCHANGED yUrl
    /\ YPopupSame

YCancelManual ==
    /\ YManualFormShown
    /\ YSet(YSyncRender(YWorld, YUpd(YWorld, TRUE, [showManualAuth |-> FALSE,
                                                     callbackUrl |-> Blank,
                                                     error |-> NULL])))
    /\ UNCHANGED yUrl
    /\ YPopupSame


\* ---- continuations of the asynchronous chains (all at default priority) ----

\* `finally` of importYahooLeagues.
YImportFinally(n) == SetFields(n, [loading |-> FALSE])

\* `finally` of handleYahooCallback.
YHandlerFinally(n) == SetFields(n, [loading |-> FALSE, connectingYahoo |-> FALSE])

\* The lines of processManualCallback after `await handleYahooCallback`.
YManualRest(n) ==
    SetFields(n, [showManualAuth |-> FALSE, callbackUrl |-> Blank, loading |-> FALSE])

\* What is left to run once importYahooLeagues has returned to its caller.
YAfterImport(n, via) ==
    IF via = "url" THEN YHandlerFinally(n)
    ELSE IF via = "manual" THEN YManualRest(YHandlerFinally(n))
    ELSE n

ExchangeOutcomes == {"success", "expired", "grant", "detail", "nomsg", "throw"}

MsgCodeExpired == "Yahoo OAuth error: Authorization code expired"
MsgInvalidGrant == "Token exchange failed: invalid_grant"

\* The detail and message fields of the body of the exchange response.
ExchangeBody(outcome) ==
    CASE outcome = "expired" -> [detail |-> MsgCodeExpired, message |-> NULL]
      [] outcome = "grant" -> [detail |-> NULL, message |-> MsgInvalidGrant]
      [] outcome = "detail" -> [detail |-> ErrServerDetail, message |-> NULL]
      [] OTHER -> [detail |-> NULL, message |-> NULL]

\* String.prototype.includes over the messages above.
YIncludes(msg, piece) ==
    \/ msg = MsgCodeExpired /\ piece = "Authorization code expired"
    \/ msg = MsgInvalidGrant /\ piece = "invalid_grant"

\* result.detail || result.message || 'Yahoo authentication failed'
YErrorMessage(body) ==
    IF ~Falsy(body.detail) THEN body.detail
    ELSE IF ~Falsy(body.message) THEN body.message
    ELSE ErrAuthGeneric

\* A mutation of the error of a failed exchange: no special case for an
\* expired code.
YExchangeErrorPlain(outcome) ==
    IF outcome = "throw" THEN ErrAuthThrow ELSE YErrorMessage(ExchangeBody(outcome))

\* The message handleYahooCallback shows for a failed exchange.
YExchangeError(outcome) ==
    IF outcome = "throw" THEN ErrAuthThrow
    ELSE LET errorMessage == YErrorMessage(ExchangeBody(outcome))
         IN IF \/ YIncludes(errorMessage, "Authorization code expired")
               \/ YIncludes(errorMessage, "invalid_grant")
            THEN ErrExpired
            ELSE errorMessage

\* A mutation of the test of the exchange response: every response passes.
YExchangeAlwaysOk(outcome) == TRUE

\* response.ok && result.success
YExchangeOk(outcome) == outcome = "success"

\* The token-exchange response of chain i arrives.
YExchangeResponse(i, outcome) ==
    /\ i \in 1..Len(yCalls)
    /\ yCalls[i].phase = "exchange"
    /\ IF YExchangeOk(outcome)
       THEN \* importYahooLeagues(): POST /leagues/connect/yahoo
            /\ yn' = SetFields(yn, [loading |-> TRUE, error |-> NULL])
            /\ yCalls' = [yCalls EXCEPT ![i].phase = "import"]
       ELSE /\ yn' = YAfterImport(SetFields(yn, [error |-> YExchangeError(outcome)]),
                                  yCalls[i].via)
            /\ yCalls' = RemoveAt(yCalls, i)
    /\ UNCHANGED <<yc, yEff, yTimers, yPosts, ySubmitted, yGets, yUrl>>
    /\ YPopupSame

ImportOutcomes == {"success", "nosuccess", "http", "throw"}

\* The league-import response of chain i arrives.
YImportResponse(i, outcome) ==
    /\ i \in 1..Len(yCalls)
    /\ yCalls[i].phase = "import"
    /\ IF outcome = "success"
       THEN \* await fetchLeagues(): GET /leagues/
            /\ yn' = fetchLeaguesStart([n |-> yn, c |-> yc]).n
            /\ yCalls' = [yCalls EXCEPT ![i].phase = "leagues"]
       ELSE /\ yn' = YAfterImport(
                       YImportFinally(SetFields(yn,
                           [error |-> IF outcome = "throw" THEN ErrImportThrow
                                      ELSE ErrImport])),
                       yCalls[i].via)
            /\ yCalls' = RemoveAt(yCalls, i)
    /\ UNCHANGED <<yc, yEff, yTimers, yPosts, ySubmitted, yGets, yUrl>>
    /\ YPopupSame

LeaguesOutcomes == {"empty", "some", "http", "throw"}

\* fetchLeagues after its await.
YLeaguesDone(n, outcome) ==
    SetFields(n,
        IF outcome = "empty" THEN [leagues |-> 0, error |-> NULL, loading |-> FALSE]
        ELSE IF outcome = "some" THEN [leagues |-> 1, error |-> NULL, loading |-> FALSE]
        ELSE IF outcome = "http" THEN [error |-> ErrFetch, loading |-> FALSE]
        ELSE [error |-> ErrFetchThrow, loading |-> FALSE])

\* The league list response of chain i arrives: fetchLeagues finishes, then
\* importYahooLeagues clears the error and finishes, then its caller.
YChainLeaguesResponse(i, outcome) ==
    /\ i \in 1..Len(yCalls)
    /\ yCalls[i].phase = "leagues"
    /\ yn' = YAfterImport(
               YImportFinally(SetFields(YLeaguesDone(yn, outcome), [error |-> NULL])),
               yCalls[i].via)
    /\ yCalls' = RemoveAt(yCalls, i)
    /\ UNCHANGED <<yc, yEff, yTimers, yPosts, ySubmitted, yGets, yUrl>>
    /\ YPopupSame

\* The response of a league list request started by the effect arrives.
YLeaguesResponse(outcome) ==
    /\ yGets > 0
    /\ yGets' = yGets - 1
    /\ yn' = YLeaguesDone(yn, outcome)
    /\ UNCHANGED <<yc, yEff, yTimers, yCalls, yPosts, ySubmitted, yUrl>>
    /\ YPopupSame


\* ---- popup flow (connectYahoo) ----------------------------------------------

MaxWindows == 1
WindowIds == 1..MaxWindows

\* A popup attempt whose interval and fallback timer are both gone is garbage.
YLive(atts) == SelectSeq(atts, LAMBDA a : a.poll \/ a.fallback)

YConnectShown ==
    /\ yc.session # NoSession
    /\ (yc.leagues > 0 \/ ~yc.showManualAuth)

\* Click on "Connect Yahoo Fantasy": connectYahoo up to its first await.
YConnectClick ==
    /\ YConnectShown
    /\ ~yc.connectingYahoo
    /\ YSet(YSyncRender(YWorld, YUpd(YWorld, TRUE, [connectingYahoo |-> TRUE,
                                                     error |-> NULL])))
    /\ yAuthReqs' = yAuthReqs + 1
    /\ UNCHANGED <<yAttempts, yWindows, yUrl>>

AuthUrlOutcomes == {"opened", "blocked", "failed", "throw"}

\* window.open(url, 'yahoo-oauth') reuses the open window of that name.
YOpenWindow ==
    IF \E wid \in WindowIds : yWindows[wid] = "open"
    THEN CHOOSE wid \in WindowIds : yWindows[wid] = "open"
    ELSE CHOOSE wid \in WindowIds :
            /\ yWindows[wid] = "none"
            /\ \A v \in WindowIds : yWindows[v] = "none" => wid <= v

\* The auth-url response arrives: connectYahoo after its awaits.
YAuthUrlResponse(outcome) ==
    /\ yAuthReqs > 0
    /\ yAuthReqs' = yAuthReqs - 1
    /\ IF outcome = "opened"
       THEN /\ \E wid \in WindowIds : yWindows[wid] \in {"open", "none"}
            /\ yWindows' = [yWindows EXCEPT ![YOpenWindow] = "open"]
            /\ yAttempts' = Append(yAttempts,
                                   [win |-> YOpenWindow, poll |-> TRUE, fallback |-> TRUE,
                                    posted |-> FALSE])
            /\ yn' = yn
       ELSE /\ yn' = SetFields(yn,
                       [error |-> IF outcome = "blocked" THEN ErrPopupBlocked
                                  ELSE IF outcome = "failed" THEN ErrAuthUrl
                                  ELSE ErrConnect,
                        connectingYahoo |-> FALSE])
            /\ UNCHANGED <<yAttempts, yWindows>>
    /\ UNCHANGED <<yc, yEff, yTimers, yCalls, yPosts, ySubmitted, yGets, yUrl>>

\* The popup window is closed (by the user or by the page it shows).
YPopupClosed(wid) ==
    /\ yWindows[wid] = "open"
    /\ yWindows' = [yWindows EXCEPT ![wid] = "closed"]
    /\ UNCHANGED <<yc, yn, yEff, yTimers, yCalls, yPosts, ySubmitted, yGets,
                   yAuthReqs, yAttempts, yUrl>>

\* A mutation of the tick: connectingYahoo is left as it is.
YPollStopsPromptOnly(st) == SetFields(st, [showManualAuth |-> TRUE])

\* What the tick that finds the popup closed sets, after clearInterval:
\* setConnectingYahoo(false) and setShowManualAuth(true).
YPollStops(st) == SetFields(st, [connectingYahoo |-> FALSE, showManualAuth |-> TRUE])

\* A tick of the 1-second interval of attempt a that finds the popup closed.
YPollTick(a) ==
    /\ a \in 1..Len(yAttempts)
    /\ yAttempts[a].poll
    /\ yWindows[yAttempts[a].win] = "closed"
    /\ yAttempts' = YLive([yAttempts EXCEPT ![a].poll = FALSE])
    /\ yn' = YPollStops(yn)
    /\ UNCHANGED <<yc, yEff, yTimers, yCalls, yPosts, ySubmitted, yGets,
                   yAuthReqs, yWindows, yUrl>>

\* The 5-minute fallback timer of attempt a fires.
YFallback(a) ==
    /\ a \in 1..Len(yAttempts)
    /\ yAttempts[a].fallback
    /\ yAttempts' = YLive([yAttempts EXCEPT ![a] = [@ EXCEPT !.poll = FALSE,
                                                             !.fallback = FALSE]])
    /\ yWindows' = [yWindows EXCEPT ![yAttempts[a].win] = "closed"]
    /\ yn' = SetFields(yn, [connectingYahoo |-> FALSE, showManualAuth |-> TRUE])
    /\ UNCHANGED <<yc, yEff, yTimers, yCalls, yPosts, ySubmitted, yGets,
                   yAuthReqs, yUrl>>

\* importYahooLeagues up to its first await.
YImportStart(w, sync, via) ==
    [YUpd(w, sync, [loading |-> TRUE, error |-> NULL])
       EXCEPT !.calls = Append(@, [code |-> NULL, state |-> NULL,
                                   via |-> via, phase |-> "import"])]

\* The popup posts { type: 'yahoo_auth_success', success: true }: handleMessage.
YPopupMessage ==
    /\ \E wid \in WindowIds : yWindows[wid] = "open"
    /\ YSet(YImportStart(YUpd(YWorld, FALSE, [showManualAuth |-> FALSE,
                                              connectingYahoo |-> FALSE]),
                         FALSE, "message"))
    /\ yAttempts' = [a \in 1..Len(yAttempts) |->
                        IF yWindows[yAttempts[a].win] = "open"
                        THEN [yAttempts[a] EXCEPT !.posted = TRUE]
                        ELSE yAttempts[a]]
    /\ UNCHANGED <<yUrl, yAuthReqs, yWindows>>

\* Click on "Import Leagues".
YImportClick ==
    /\ yc.session # NoSession
    /\ yc.leagues > 0
    /\ ~yc.loading
    /\ YSet(YSyncRender(YWorld, YImportStart(YWorld, TRUE, "button")))
    /\ UNCHANGED yUrl
    /\ YPopupSame

\* The component before its first render, for a session the auth provider
\* already holds (or none).
YUnmounted(s) ==
    [ c |-> [YInitState EXCEPT !.session = s],
      n |-> [YInitState EXCEPT !.session = s],
      eff |-> [session |-> NoSession],
      timers |-> [c \in Codes |-> 0], calls |-> <<>>,
      posts |-> [c \in Codes |-> 0],
      submitted |-> [c \in Codes |-> 0], gets |-> 0 ]

\* The state after mounting: the first render and its effects have run.
YInit ==
    /\ yUrl \in { [code |-> NULL, state |-> NULL],
                  [code |-> "ABC123", state |-> "xyz"] }
    /\ \E s \in {NoSession, "s1"} :
          LET w == YEffects(YUnmounted(s), TRUE)
          IN /\ yc = w.c
             /\ yn = w.n
             /\ yEff = w.eff
             /\ yTimers = w.timers
             /\ yCalls = w.calls
             /\ yPosts = w.posts
             /\ ySubmitted = w.submitted
             /\ yGets = w.gets
    /\ yAuthReqs = 0
    /\ yAttempts = <<>>
    /\ yWindows = [wid \in WindowIds |-> "none"]
    /\ yEvents = 0

\* No render is pending.  The continuations of timers, responses and messages
\* only queue updates and never read the committed record, so running one
\* before or after a pending render leaves the same queued state; the model
\* runs the pending render first.  A user event is different: its handler is
\* the one the committed render created, so it may run before that render.
YQuiet == yc = YSeen(yn)

YUserEvents ==
    \/ YManualClick
    \/ YCancelManual

YTimeEvents ==
    \/ \E s \in Sessions : YSessionChange(s)
    \/ \E code \in Codes : YExpire(code)

\* The popup flow: connect, the popup's message or its closing, the poll and
\* the fallback timer, and the league import the message starts.
YPopupNext ==
    \/ YFree /\ YRender
    \/ YEvent /\ YConnectClick
    \/ YEvent /\ YCancelManual
    \/ YFree /\ YQuiet /\ \E o \in AuthUrlOutcomes : YAuthUrlResponse(o)
    \/ YFree /\ YQuiet /\ \E wid \in WindowIds : YPopupClosed(wid)
    \/ YFree /\ YQuiet /\ \E a \in 1..Len(yAttempts) : YPollTick(a)
    \/ YFree /\ YQuiet /\ \E a \in 1..Len(yAttempts) : YFallback(a)
    \/ YEvent /\ YQuiet /\ YPopupMessage
    \/ YFree /\ YQuiet /\ \E i \in 1..Len(yCalls), o \in ImportOutcomes :
                              YImportResponse(i, o)
    \/ YFree /\ YQuiet /\ \E i \in 1..Len(yCalls), o \in LeaguesOutcomes :
                              YChainLeaguesResponse(i, o)
    \/ YFree /\ YQuiet /\ \E o \in LeaguesOutcomes : YLeaguesResponse(o)

\* The code-relay specification explores every outcome of the token exchange
\* and one success and one failure of each request around it.
RelayImportOutcomes == {"success", "http"}
RelayLeaguesOutcomes == {"empty", "some", "http"}
RelayAuthUrlOutcomes == {"opened", "blocked"}

YResponses ==
    \/ \E i \in 1..Len(yCalls), o \in ExchangeOutcomes : YExchangeResponse(i, o)
    \/ \E i \in 1..Len(yCalls), o \in RelayImportOutcomes : YImportResponse(i, o)
    \/ \E i \in 1..Len(yCalls), o \in RelayLeaguesOutcomes :
          YChainLeaguesResponse(i, o)
    \/ \E o \in RelayLeaguesOutcomes : YLeaguesResponse(o)

\* The popup flow as far as it leads to the manual form.
YPopupToManual ==
    \/ \E o \in RelayAuthUrlOutcomes : YAuthUrlResponse(o)
    \/ \E wid \in WindowIds : YPopupClosed(wid)
    \/ \E a \in 1..Len(yAttempts) : YPollTick(a)
    \/ \E a \in 1..Len(yAttempts) : YFallback(a)

YNext ==
    \/ YFree /\ YRender
    \/ YEvent /\ YUserEvents
    \/ YEvent /\ YQuiet /\ YTimeEvents
    \/ YFree /\ YQuiet /\ YResponses
    \/ YFree /\ YConnectClick
    \/ YFree /\ YQuiet /\ YPopupToManual
    \/ YFree /\ YQuiet /\ \E u \in ManualInputs : YTypeCallbackUrl(u)


(***************************************************************************)
(*                             RecapEditor                                 *)
(***************************************************************************)
\* Bounds of the editor model.
MaxEEvents == 3
TimerIds == 1..(MaxEEvents + 4)

\* Strings are sequences of characters; " " stands for white space.
Titles == { <<>>, <<" ">>, <<"W">> }
Texts == { <<>>, <<" ">>, <<"x">>, <<"y">> }
NonBlank(s) == Trim(s) # <<>>

\* The recap prop: absent (create mode) or an existing recap (edit mode).
NoRecap == [id |-> NULL, title |-> <<>>, content |-> <<>>]
OldRecap == [id |-> "r1", title |-> <<"W">>, content |-> <<"x">>]

\* useState initial values.  rev is history: the number of edits the state
\* includes.
EInitState(recap) ==
    [ title |-> recap.title, isSaving |-> FALSE, hasUnsavedChanges |-> FALSE,
      editorState |-> <<>>, autoSaveTimeout |-> 0, rev |-> 0 ]

\* A timer slot: not armed, or armed with the state its callback reads.
EUnarmed == [armed |-> FALSE, st |-> EInitState(NoRecap)]
EArmed(st) == [armed |-> TRUE, st |-> st]

EWorld ==
    [ c |-> ec, n |-> en, timers |-> eTimers, prev |-> ePrev, saves |-> eSaves,
      invoked |-> eInvoked, done |-> eDone, alerts |-> eAlerts, route |-> eRoute ]

ESet(w) ==
    /\ ec' = w.c
    /\ en' = w.n
    /\ eTimers' = w.timers
    /\ ePrev' = w.prev
    /\ eSaves' = w.saves
    /\ eInvoked' = w.invoked
    /\ eDone' = w.done
    /\ eAlerts' = w.alerts
    /\ eRoute' = w.route

EUpd(w, sync, upd) ==
    [w EXCEPT !.n = SetFields(@, upd),
              !.c = IF sync THEN SetFields(@, upd) ELSE @]

\* An edit is a batch of updates that also advances the revision.
EEdit(w, sync, upd) ==
    [EUpd(w, sync, upd) EXCEPT !.n.rev = @ + 1,
                               !.c.rev = IF sync THEN @ + 1 ELSE @]

\* onSave(editorState, title) is called with the values st of a render.
EStartSave(w, st, kind) ==
    [w EXCEPT !.saves = Append(@, [rev |-> st.rev, title |-> st.title,
                                   content |-> st.editorState, kind |-> kind]),
              !.invoked = @ \cup {st.rev}]

\* handleAutoSave as created by the render that saw st, called by a timer.
handleAutoSave(w, st) ==
    IF st.hasUnsavedChanges /\ ~st.isSaving /\ NonBlank(st.title)
       /\ NonBlank(st.editorState)
    THEN EStartSave(EUpd(w, FALSE, [isSaving |-> TRUE]), st, "auto")
    ELSE w

\* alert(message)
AlertTitle == "Please enter a title for the recap"
AlertFailed == "Failed to save recap. Please try again."
EAlert(w, message) == [w EXCEPT !.alerts = Append(@, message)]

\* A mutation of the title test: !title, without trim().
ETitleMissingRaw(title) == title = <<>>

\* !title.trim()
ETitleMissing(title) == ~NonBlank(title)

\* handleSave up to its await.
handleSave(w) ==
    IF ETitleMissing(w.c.title) THEN EAlert(w, AlertTitle)
    ELSE EStartSave(EUpd(w, TRUE, [isSaving |-> TRUE]), w.c, "manual")

handleTitleChange(w, t) ==
    EEdit(w, TRUE, [title |-> t, hasUnsavedChanges |-> TRUE])

\* The update listener registered by EditorStateChangeHandler.
EditorStateChangeHandler(w, x) ==
    EEdit(w, FALSE, [editorState |-> x, hasUnsavedChanges |-> TRUE])

EClear(timers, id) == IF id = 0 THEN timers ELSE [timers EXCEPT ![id] = EUnarmed]

\* setTimeout returns an id that no armed timer and no stored handle has.
EIdFree(w, id) ==
    /\ ~w.timers[id].armed
    /\ id \notin {w.c.autoSaveTimeout, w.n.autoSaveTimeout, w.prev}

EFreshTimer(w) ==
    CHOOSE id \in TimerIds :
        /\ EIdFree(w, id)
        /\ \A j \in TimerIds : EIdFree(w, j) => id <= j

\* The auto-save effect: the cleanup of its previous run, then its body.
autoSaveEffect(w) ==
    LET w1 == [w EXCEPT !.timers = EClear(EClear(@, w.prev), w.c.autoSaveTimeout),
                        !.prev = w.c.autoSaveTimeout]
        id == EFreshTimer(w1)
    IN IF w.c.hasUnsavedChanges
       THEN [w1 EXCEPT !.timers[id] = EArmed(w.c), !.n.autoSaveTimeout = id]
       ELSE w1

\* The effect that initialises the editor with the content of the recap.
initEffect(w) ==
    IF eRecap.content # <<>> /\ w.c.editorState = <<>>
    THEN EUpd(w, FALSE, [editorState |-> eRecap.content, hasUnsavedChanges |-> FALSE])
    ELSE w

\* The effects of a render whose previous render saw c0, in declaration
\* order.  handleAutoSave is a new function when one of hasUnsavedChanges,
\* isSaving, title, editorState changed.
EEffects(w, c0, mount) ==
    LET autoDeps == \E f \in {"hasUnsavedChanges", "isSaving", "title",
                              "editorState", "autoSaveTimeout"} : w.c[f] # c0[f]
        initDeps == w.c.editorState # c0.editorState
        w1 == IF mount \/ autoDeps THEN autoSaveEffect(w) ELSE w
    IN IF mount \/ initDeps THEN initEffect(w1) ELSE w1

EOthers == UNCHANGED <<yVars, aVars, mVars, pVars, sVars, wVars, dVars, lVars, xVars>>
EEvent == eEvents < MaxEEvents /\ eEvents' = eEvents + 1 /\ EOthers
EFree == UNCHANGED eEvents /\ EOthers

\* A render at default priority commits every queued update.
ERender ==
    /\ ec # en
    /\ ESet(EEffects([EWorld EXCEPT !.c = en], ec, FALSE))
    /\ UNCHANGED eRecap

ETitleChange(t) ==
    /\ t # ec.title
    /\ ESet(EEffects(handleTitleChange(EWorld, t), ec, FALSE))
    /\ UNCHANGED eRecap

EContentEdit(x) ==
    /\ x # en.editorState
    /\ ESet(EditorStateChangeHandler(EWorld, x))
    /\ UNCHANGED eRecap

\* The Save button is enabled (isLoading keeps its default, false).
ESaveEnabled == ~ec.isSaving /\ NonBlank(ec.title) /\ NonBlank(ec.editorState)

ESaveClick ==
    /\ ESaveEnabled
    /\ ESet(EEffects(handleSave(EWorld), ec, FALSE))
    /\ UNCHANGED eRecap

\* The 2-second timer id fires.
ETimerFire(id) ==
    /\ eTimers[id].armed
    /\ ESet(handleAutoSave([EWorld EXCEPT !.timers[id] = EUnarmed], eTimers[id].st))
    /\ UNCHANGED eRecap

\* The promise of onSave call i settles: the lines after the await.
ESaveSettle(i, ok) ==
    /\ i \in 1..Len(eSaves)
    /\ LET w == [EWorld EXCEPT !.saves = RemoveAt(@, i)]
       IN IF ok
          THEN ESet([EUpd(w, FALSE, [hasUnsavedChanges |-> FALSE, isSaving |-> FALSE])
                       EXCEPT !.done = @ \cup {eSaves[i].rev}])
          ELSE ESet(EUpd(IF eSaves[i].kind = "manual" THEN EAlert(w, AlertFailed)
                         ELSE w,
                         FALSE, [isSaving |-> FALSE]))
    /\ UNCHANGED eRecap

\* handleSave is called in the current render, whatever the state of the
\* button that carries it.
EHandleSaveCall ==
    /\ ESet(EEffects(handleSave(EWorld), ec, FALSE))
    /\ UNCHANGED eRecap

\* The editor page is on screen.
EOnPage == eRoute = "editor"

\* RecapEditorPage.handleSave after its await: mutate has returned the
\* response, or null when the request failed, and in both cases
\* navigate('/dashboard?tab=recaps') runs and the promise is fulfilled; the
\* editor's handler, still mounted, goes on after its own await.
EPageSettle(i, ok) ==
    /\ i \in 1..Len(eSaves)
    /\ LET w == [EWorld EXCEPT !.saves = RemoveAt(@, i),
                               !.route = "dashboard"]
       IN ESet([EUpd(w, FALSE, [hasUnsavedChanges |-> FALSE, isSaving |-> FALSE])
                  EXCEPT !.done = @ \cup {eSaves[i].rev}])
    /\ UNCHANGED eRecap

EUnmounted(recap) ==
    [ c |-> EInitState(recap), n |-> EInitState(recap),
      timers |-> [id \in TimerIds |-> EUnarmed], prev |-> 0, saves |-> <<>>,
      invoked |-> {}, done |-> {}, alerts |-> <<>>, route |-> "editor" ]

EMounted(recap) ==
    /\ eRecap = recap
    /\ LET w == EEffects(EUnmounted(recap), EInitState(recap), TRUE)
       IN /\ ec = w.c
          /\ en = w.n
          /\ eTimers = w.timers
          /\ ePrev = w.prev
          /\ eSaves = w.saves
          /\ eInvoked = w.invoked
          /\ eDone = w.done
          /\ eAlerts = w.alerts
          /\ eRoute = w.route
    /\ eEvents = 0

\* The state after mounting, in create mode or in edit mode.
EInit == \E recap \in {NoRecap, OldRecap} : EMounted(recap)

\* The editor when another component is examined.
EIdle == EMounted(NoRecap)

ENext ==
    \/ EFree /\ ERender
    \/ EEvent /\ \E t \in Titles : ETitleChange(t)
    \/ EEvent /\ \E x \in Texts : EContentEdit(x)
    \/ EEvent /\ ESaveClick
    \/ EFree /\ \E id \in TimerIds : ETimerFire(id)
    \/ EFree /\ \E i \in 1..Len(eSaves), ok \in BOOLEAN : ESaveSettle(i, ok)

\* The editor with its handlers called in every state.
EHandlersNext ==
    \/ EFree /\ ERender
    \/ EEvent /\ \E t \in Titles : ETitleChange(t)
    \/ EEvent /\ \E x \in Texts : EContentEdit(x)
    \/ EEvent /\ EHandleSaveCall
    \/ EFree /\ \E id \in TimerIds : ETimerFire(id)
    \/ EFree /\ \E i \in 1..Len(eSaves), ok \in BOOLEAN : ESaveSettle(i, ok)

\* The editor inside RecapEditorPage, whose handleSave is its onSave.
EPageNext ==
    \/ EFree /\ EOnPage /\ ERender
    \/ EEvent /\ EOnPage /\ \E t \in Titles : ETitleChange(t)
    \/ EEvent /\ EOnPage /\ \E x \in Texts : EContentEdit(x)
    \/ EEvent /\ EOnPage /\ ESaveClick
    \/ EFree /\ \E id \in TimerIds : ETimerFire(id)
    \/ EFree /\ \E i \in 1..Len(eSaves), ok \in BOOLEAN : EPageSettle(i, ok)

(***************************************************************************)
(*                                useApi                                   *)
(***************************************************************************)

MaxAEvents == 3

Endpoints == {"/recaps", "/recaps/stats"}
DepValues == {"d1", "d2"}
\* What a host component passes to the hook in one render.
AProps == [endpoint : Endpoints, immediate : BOOLEAN, dep : DepValues]

\* response.json(): the texts that parse, and the value each parses to.
JsonTexts == {"[]", "{\"count\":2}"}
BodyTexts == JsonTexts \cup {"<html>"}
JsonParses(text) == text \in JsonTexts
JsonValue(text) == IF text = "[]" THEN "array()" ELSE "object(count:2)"
ErrJson == "Unexpected token"

\* What fetch() can produce: a response, or a rejection.
OkStatus == [status |-> "200", statusText |-> "OK"]
FailStatuses == { [status |-> "500", statusText |-> "Internal Server Error"] }
ResponseOk(r) == r.status = "200"
Responses ==
    [kind : {"response"}, st : {OkStatus} \cup FailStatuses, body : BodyTexts]
ErrNetwork == "Failed to fetch"
Rejections == { [kind |-> "rejected", st |-> OkStatus, body |-> ErrNetwork] }

\* Messages are sequences of string pieces; null is the empty sequence (no
\* message is empty).
NoError == <<>>

\* `HTTP ${response.status}: ${response.statusText}`
HttpError(r) == <<"HTTP ", r.st.status, ": ", r.st.statusText>>

\* useState initial value.
AInitState(props) == [data |-> NULL, loading |-> props.immediate, error |-> NoError]

\* A mutation of the start of fetchData: the error is not reset.
AFetchStartKeepsError(state) == [state EXCEPT !.loading = TRUE]

\* fetchData up to its first await.
AFetchStart(state) == [state EXCEPT !.loading = TRUE, !.error = NoError]

\* Mutation: fetchData without its test of response.ok.
AFetchDoneAnyStatus(r) ==
    IF r.kind = "rejected"
    THEN [data |-> NULL, loading |-> FALSE, error |-> <<r.body>>]
    ELSE IF ~JsonParses(r.body)
    THEN [data |-> NULL, loading |-> FALSE, error |-> <<ErrJson>>]
    ELSE [data |-> JsonValue(r.body), loading |-> FALSE, error |-> NoError]

\* fetchData after fetch() has settled with r: the state it sets.
AFetchDone(r) ==
    IF r.kind = "rejected"
    THEN [data |-> NULL, loading |-> FALSE, error |-> <<r.body>>]
    ELSE IF ~ResponseOk(r.st)
    THEN [data |-> NULL, loading |-> FALSE, error |-> HttpError(r)]
    ELSE IF ~JsonParses(r.body)
    THEN [data |-> NULL, loading |-> FALSE, error |-> <<ErrJson>>]
    ELSE [data |-> JsonValue(r.body), loading |-> FALSE, error |-> NoError]

\* Mutation: the effect without its test of the flag.
AEffectAlwaysFetches(props) == TRUE

\* The effect calls fetchData when the flag is set.
AEffectFetches(props) == props.immediate

\* The effect runs after the first render and when fetchData (that is, the
\* endpoint), immediate or a member of deps changed.
AEffectRuns(old, new) == old # new

\* The number of fetchData calls so far.
ACalls == aStarted.effect + aStarted.refetch

\* A call of fetchData; last tells that no call was made after it.
ACall(props, by) ==
    [endpoint |-> props.endpoint, by |-> by, phase |-> "session", last |-> TRUE]

\* The calls in flight when another call is made.
AEarlier(reqs) == [k \in 1..Len(reqs) |-> [reqs[k] EXCEPT !.last = FALSE]]

AOthers == UNCHANGED <<yVars, eVars, mVars, pVars, sVars, wVars, dVars, lVars, xVars>>
AEvent == aEvents < MaxAEvents /\ aEvents' = aEvents + 1 /\ AOthers
AFree == UNCHANGED aEvents /\ AOthers

\* The host component renders the hook again with the props new.
ARerender(new) ==
    /\ aProps' = new
    /\ IF AEffectRuns(aProps, new) /\ AEffectFetches(new)
       THEN /\ aState' = AFetchStart(aState)
            /\ aReqs' = Append(AEarlier(aReqs), ACall(new, "effect"))
            /\ aStarted' = [aStarted EXCEPT !.effect = @ + 1]
       ELSE UNCHANGED <<aState, aReqs, aStarted>>
    /\ UNCHANGED aIssued

\* The host calls refetch(), the fetchData of the last render.
ARefetch ==
    /\ aState' = AFetchStart(aState)
    /\ aReqs' = Append(AEarlier(aReqs), ACall(aProps, "refetch"))
    /\ aStarted' = [aStarted EXCEPT !.refetch = @ + 1]
    /\ UNCHANGED <<aProps, aIssued>>

\* supabase.auth.getSession() has returned to call i: the GET is issued.
ASessionReturned(i) ==
    /\ i \in 1..Len(aReqs)
    /\ aReqs[i].phase = "session"
    /\ aReqs' = [aReqs EXCEPT ![i].phase = "fetch"]
    /\ aIssued' = [aIssued EXCEPT ![aReqs[i].by] = @ + 1]
    /\ UNCHANGED <<aProps, aState, aStarted>>

\* fetch() of call i has settled with r.
AFetchSettled(i, r) ==
    /\ i \in 1..Len(aReqs)
    /\ aReqs[i].phase = "fetch"
    /\ aReqs' = RemoveAt(aReqs, i)
    /\ aState' = AFetchDone(r)
    /\ UNCHANGED <<aProps, aStarted, aIssued>>

\* The state after mounting with the props p.
AMounted(p) ==
    /\ aProps = p
    /\ aState = IF AEffectFetches(p) THEN AFetchStart(AInitState(p)) ELSE AInitState(p)
    /\ aReqs = IF AEffectFetches(p) THEN <<ACall(p, "effect")>> ELSE <<>>
    /\ aStarted = [effect |-> IF AEffectFetches(p) THEN 1 ELSE 0, refetch |-> 0]
    /\ aIssued = [effect |-> 0, refetch |-> 0]
    /\ aEvents = 0

AInit == \E p \in AProps : AMounted(p)

\* The hook when another component is examined.
AIdle == AMounted([endpoint |-> "/recaps", immediate |-> FALSE, dep |-> "d1"])

ANext ==
    \/ AEvent /\ \E new \in AProps : ARerender(new)
    \/ AEvent /\ ARefetch
    \/ AFree /\ \E i \in 1..Len(aReqs) : ASessionReturned(i)
    \/ AFree /\ \E i \in 1..Len(aReqs), r \in Responses \cup Rejections :
                   AFetchSettled(i, r)

(***************************************************************************)
(*          useApiMutation, as RecapsOverview uses it to delete            *)
(***************************************************************************)

MaxMEvents == 3

\* Ids of the recap cards on the page.
RecapIds == {"r1", "r2"}

\* useState initial values of the hook, of one useDeleteRecap() instance.
MInitState == [loading |-> FALSE, error |-> NoError]

\* mutate up to its first await.
MMutateStart(state) == [state EXCEPT !.loading = TRUE, !.error = NoError]

\* What mutate resolves to once fetch() has settled with r.
MResult(r) ==
    IF r.kind = "response" /\ ResponseOk(r.st) /\ JsonParses(r.body)
    THEN JsonValue(r.body)
    ELSE NULL

\* The message mutate's catch block stores.
MError(r) ==
    IF r.kind = "rejected" THEN <<r.body>>
    ELSE IF ~ResponseOk(r.st) THEN HttpError(r)
    ELSE <<ErrJson>>

\* mutate after fetch() has settled with r: catch, then finally.
MMutateDone(state, r) ==
    [state EXCEPT !.error = IF MResult(r) = NULL THEN MError(r) ELSE @,
                  !.loading = FALSE]

MOthers == UNCHANGED <<yVars, eVars, aVars, pVars, sVars, wVars, dVars, lVars, xVars>>
MEvent == mEvents < MaxMEvents /\ mEvents' = mEvents + 1 /\ MOthers
MFree == UNCHANGED mEvents /\ MOthers

\* The Delete button of card r is enabled unless r is the recap being deleted.
MDeleteEnabled(r) == mDeleting # r

\* handleDeleteRecap(r) up to its first await (the user confirms).
MDeleteClick(r) ==
    /\ MDeleteEnabled(r)
    /\ mDeleting' = r
    /\ mState' = MMutateStart(mState)
    /\ mCalls' = Append(mCalls, [recap |-> r, phase |-> "session", result |-> NULL])

\* supabase.auth.getSession() has returned to call i: the request is issued.
MSessionReturned(i) ==
    /\ i \in 1..Len(mCalls)
    /\ mCalls[i].phase = "session"
    /\ mCalls' = [mCalls EXCEPT ![i].phase = "fetch"]
    /\ UNCHANGED <<mState, mDeleting>>

\* fetch() of call i has settled with r: mutate resolves and
\* handleDeleteRecap goes on to await refetchRecaps().
MFetchSettled(i, r) ==
    /\ i \in 1..Len(mCalls)
    /\ mCalls[i].phase = "fetch"
    /\ mState' = MMutateDone(mState, r)
    /\ mCalls' = [mCalls EXCEPT ![i] = [@ EXCEPT !.phase = "refetch",
                                                !.result = MResult(r)]]
    /\ UNCHANGED mDeleting

\* refetchRecaps() of call i has finished: `finally` of handleDeleteRecap.
MRefetchDone(i) ==
    /\ i \in 1..Len(mCalls)
    /\ mCalls[i].phase = "refetch"
    /\ mCalls' = RemoveAt(mCalls, i)
    /\ mDeleting' = NULL
    /\ UNCHANGED mState

MInit ==
    /\ mState = MInitState
    /\ mCalls = <<>>
    /\ mDeleting = NULL
    /\ mEvents = 0

\* The hook when another component is examined.
MIdle == MInit

MNext ==
    \/ MEvent /\ \E r \in RecapIds : MDeleteClick(r)
    \/ MFree /\ \E i \in 1..Len(mCalls) : MSessionReturned(i)
    \/ MFree /\ \E i \in 1..Len(mCalls), r \in Responses \cup Rejections :
                   MFetchSettled(i, r)
    \/ MFree /\ \E i \in 1..Len(mCalls) : MRefetchDone(i)

(***************************************************************************)
(*        RecapsOverview: the paginated recap list (useRecaps)             *)
(***************************************************************************)

MaxPEvents == 4
MaxRecaps == 13

\* const pageSize = 6
PageSize == 6

Min(a, b) == IF a < b THEN a ELSE b

\* GET /recaps?page=..&page_size=.. of the HTTP API, over a store of `total`
\* recaps: a PaginatedResponse { data, count, has_more }.  `page` records the
\* page the request asked for; `items` is data.length.
ListRecaps(page, size, total) ==
    [ page     |-> page,
      items    |-> IF total > (page - 1) * size
                   THEN Min(size, total - (page - 1) * size) ELSE 0,
      count    |-> total,
      has_more |-> page * size < total ]

\* No response: recapsResponse is null.
NoData == [page |-> 0, items |-> 0, count |-> 0, has_more |-> FALSE]

\* useApi state of useRecaps before its first fetch.
PInitState(immediate) == [data |-> NoData, loading |-> immediate, error |-> NoError]

\* fetchData up to its first await.
PFetchStart(state) == [state EXCEPT !.loading = TRUE, !.error = NoError]

\* fetchData after the request has settled: with body `resp` when ok.
PFetchDone(ok, resp) ==
    IF ok THEN [data |-> resp, loading |-> FALSE, error |-> NoError]
    ELSE [data |-> NoData, loading |-> FALSE, error |-> <<ErrNetwork>>]

\* const totalRecaps = recapsResponse?.count || 0
totalRecaps == IF pState.data = NoData THEN 0 ELSE pState.data.count

\* recaps.length, of recaps = recapsResponse?.data || []
recapsLength == IF pState.data = NoData THEN 0 ELSE pState.data.items

\* A mutation of hasMore: <= in place of <.
PHasMoreInclusive(page, total) == page * PageSize <= total

\* const hasMore = (currentPage * pageSize) < totalRecaps
PHasMore(page, total) == page * PageSize < total

hasMore == PHasMore(pPage, totalRecaps)

\* The component renders the grid of a response: neither the loading
\* skeleton, nor the error panel, nor the empty state.
PGridShown ==
    /\ ~(pState.loading /\ pPage = 1)
    /\ pState.error = NoError
    /\ totalRecaps > 0

\* The pagination bar is rendered.
PNavShown == PGridShown /\ (pPage > 1 \/ hasMore)

POthers == UNCHANGED <<yVars, eVars, aVars, mVars, sVars, wVars, dVars, lVars, xVars>>
PEvent == pEvents < MaxPEvents /\ pEvents' = pEvents + 1 /\ POthers
PFree == UNCHANGED pEvents /\ POthers

\* The effect of useApi calls fetchData for the page being rendered.
PFetch(page) ==
    /\ pState' = PFetchStart(pState)
    /\ pReqs' = Append(pReqs, page)

\* A render whose effect runs again: `params` of useRecaps is a new object on
\* every render, and it is in the effect's dependency list.
PEffectFetch ==
    /\ PFetch(pPage)
    /\ UNCHANGED <<pPage, pStore, pFailed>>

\* The error panel is rendered, with its "Try again" button.
PErrorShown == ~(pState.loading /\ pPage = 1) /\ pState.error # NoError

\* Try again: onClick={refetchRecaps}
PRetryClick ==
    /\ PErrorShown
    /\ PFetch(pPage)
    /\ pFailed' = {}
    /\ UNCHANGED <<pPage, pStore>>

\* Next: setCurrentPage(currentPage + 1), and the effect of the new endpoint.
PNextClick ==
    /\ PNavShown
    /\ hasMore /\ ~pState.loading
    /\ pPage' = pPage + 1
    /\ PFetch(pPage')
    /\ pFailed' = {}
    /\ UNCHANGED pStore

\* Previous: setCurrentPage(Math.max(1, currentPage - 1)).
PPrevClick ==
    /\ PNavShown
    /\ pPage # 1 /\ ~pState.loading
    /\ pPage' = IF pPage - 1 > 1 THEN pPage - 1 ELSE 1
    /\ PFetch(pPage')
    /\ pFailed' = {}
    /\ UNCHANGED pStore

\* Request i settles; requests are not cancelled and settle in any order.
PSettle(i, ok) ==
    /\ i \in 1..Len(pReqs)
    /\ pState' = PFetchDone(ok, ListRecaps(pReqs[i], PageSize, pStore))
    /\ pReqs' = RemoveAt(pReqs, i)
    /\ pFailed' = IF ok THEN pFailed ELSE pFailed \cup {pReqs[i]}
    /\ UNCHANGED <<pPage, pStore>>

\* A recap is generated or deleted meanwhile.
PStoreChange(n) ==
    /\ n \in 0..MaxRecaps
    /\ n # pStore
    /\ pStore' = n
    /\ UNCHANGED <<pPage, pState, pReqs, pFailed>>

\* Mounted with a signed-in user: the first effect has called fetchData.
PInit ==
    /\ pPage = 1
    /\ pState = PInitState(TRUE)
    /\ pReqs = <<1>>
    /\ pStore \in 0..MaxRecaps
    /\ pFailed = {}
    /\ pEvents = 0

\* Mounted with no user signed in: immediate is false.
PIdle ==
    /\ pPage = 1
    /\ pState = PInitState(FALSE)
    /\ pReqs = <<>>
    /\ pStore = 0
    /\ pFailed = {}
    /\ pEvents = 0

PNext ==
    \/ PEvent /\ PEffectFetch
    \/ PEvent /\ PNextClick
    \/ PEvent /\ PPrevClick
    \/ PEvent /\ PRetryClick
    \/ PFree /\ \E i \in 1..Len(pReqs), ok \in BOOLEAN : PSettle(i, ok)
    \/ PEvent /\ \E n \in {pStore - 1, pStore + 1} : PStoreChange(n)

(***************************************************************************)
(*     The recap store (generated_recaps) and the requests that write it   *)
(***************************************************************************)

MaxSEvents == 4

Leagues == {"L1"}
Weeks == {1, 2}
Seasons == {2024}

\* (league_id, week, season) of a recap request or row.
RecapKeys == [league : Leagues, week : Weeks, season : Seasons]
RecapKey(r) == [league |-> r.league, week |-> r.week, season |-> r.season]

\* INSERT without the UNIQUE constraint.
StoreInsertUnchecked(rows, row) == rows \cup {row}

\* INSERT INTO generated_recaps under UNIQUE(league_id, week, season): the
\* statement fails, and changes nothing, when the triple is already there.
StoreInsert(rows, row) ==
    IF \E r \in rows : RecapKey(r) = RecapKey(row)
    THEN rows
    ELSE rows \cup {row}

\* UPDATE of the content of the row with the given id.
StoreUpdate(rows, id, content) ==
    {IF r.id = id THEN [r EXCEPT !.content = content] ELSE r : r \in rows}

\* INSERT ... ON CONFLICT (league_id, week, season) DO UPDATE.
StoreUpsert(rows, row) ==
    IF \E r \in rows : RecapKey(r) = RecapKey(row)
    THEN {IF RecapKey(r) = RecapKey(row)
          THEN [r EXCEPT !.content = row.content] ELSE r : r \in rows}
    ELSE StoreInsert(rows, row)

SOthers == UNCHANGED <<yVars, eVars, aVars, mVars, pVars, wVars, dVars, lVars, xVars>>
SEvent == sEvents < MaxSEvents /\ sEvents' = sEvents + 1 /\ SOthers
SFree == UNCHANGED sEvents /\ SOthers

\* A mutation of the default of mutate's method parameter.
MutateMethodDelete(method) == IF method = NULL THEN "DELETE" ELSE method

\* method: 'POST' | 'PUT' | 'DELETE' = 'POST', of mutate: the
\* method of a call that passes none (NULL) is POST.
MutateMethod(method) == IF method = NULL THEN "POST" ELSE method

\* A request of the client to the API; n tells requests apart and stands for
\* the content they carry, data tells whether the request has a body.
SRequest(kind, key, id, data, method) ==
    [kind |-> kind, league |-> key.league, week |-> key.week,
     season |-> key.season, id |-> id, n |-> sEvents + 1, data |-> data,
     method |-> method]

\* A mutate(endpoint, data) call, which passes no method, has issued its
\* request.
SPost(kind, key, id, data) ==
    /\ sReqs' = sReqs \cup {SRequest(kind, key, id, data, MutateMethod(NULL))}
    /\ UNCHANGED <<sRows, sLeagues, sLog>>

\* GenerateRecapModal.handleSubmit: generateRecap('/recaps/generate', formData)
SGenerateSubmit(key) == SPost("generate", key, 0, TRUE)

\* RecapEditorPage.handleSave, create mode: createRecap('/recaps', {...})
SCreateSave(key) == SPost("create", key, 0, TRUE)

\* RecapEditorPage.handleSave, edit mode: updateRecap(`/recaps/${recap.id}`, ..)
SUpdateSave(row) == SPost("update", RecapKey(row), row.id, TRUE)

\* handleRegenerateRecap: regenerateRecap(`/recaps/${recapId}/regenerate`)
SRegenerate(row) == SPost("regenerate", RecapKey(row), row.id, FALSE)

\* handleDeleteRecap: after confirm(..), deleteRecap(`/recaps/${recapId}`),
\* a mutate call with the endpoint alone.
SDeleteRecap(row, confirmed) ==
    IF confirmed THEN SPost("delete", RecapKey(row), row.id, FALSE)
    ELSE UNCHANGED <<sRows, sLeagues, sReqs, sLog>>

\* deleteLeague: after window.confirm(..), fetch(`../leagues/${leagueId}`,
\* {method: 'DELETE', ..}).
SDeleteLeague(league, confirmed) ==
    IF confirmed
    THEN /\ sReqs' = sReqs \cup
               {SRequest("league", [league |-> league, week |-> 0, season |-> 0],
                         0, FALSE, "DELETE")}
         /\ UNCHANGED <<sRows, sLeagues, sLog>>
    ELSE UNCHANGED <<sRows, sLeagues, sReqs, sLog>>

\* The row a generation or create request asks the store to hold.
SNewRow(q) ==
    [id |-> q.n, league |-> q.league, week |-> q.week,
     season |-> q.season, content |-> q.n]

\* The API accepts a write of a recap: the collection endpoints take POST,
\* and the row's league_id must reference a league (FOREIGN KEY).
SInsertAccepted(q) == q.method = "POST" /\ q.league \in sLeagues

\* The API serves a generation or create request: it inserts, and on a
\* conflict either rejects the request or overwrites the row.
SServeInsert(q, overwrite) ==
    /\ q \in sReqs /\ q.kind \in {"generate", "create"}
    /\ sRows' = IF ~SInsertAccepted(q) THEN sRows
                ELSE IF overwrite THEN StoreUpsert(sRows, SNewRow(q))
                ELSE StoreInsert(sRows, SNewRow(q))
    /\ sReqs' = sReqs \ {q}
    /\ sLog' = sLog \cup
          {[kind |-> q.kind, key |-> RecapKey(q),
            outcome |-> IF ~SInsertAccepted(q) THEN "refused"
                        ELSE IF \A r \in sRows : RecapKey(r) # RecapKey(q)
                        THEN "created"
                        ELSE IF overwrite THEN "overwritten" ELSE "rejected"]}
    /\ UNCHANGED sLeagues

\* DELETE FROM generated_recaps WHERE id = ..
StoreDelete(rows, id) == {r \in rows : r.id # id}

\* What a request on /recaps/{id} or /recaps/{id}/regenerate does to the
\* rows: DELETE on the recap removes it, POST with a body (or on regenerate)
\* rewrites its content, anything else changes nothing.
SItemEffect(q) ==
    CASE q.method = "DELETE" /\ q.kind # "regenerate" -> "deleted"
      [] q.method = "POST" /\ (q.data \/ q.kind = "regenerate") -> "overwritten"
      [] OTHER -> "refused"

\* The API serves a request on one recap id.
SServeUpdate(q) ==
    /\ q \in sReqs /\ q.kind \in {"update", "regenerate", "delete"}
    /\ sRows' = CASE SItemEffect(q) = "deleted" -> StoreDelete(sRows, q.id)
                  [] SItemEffect(q) = "overwritten" -> StoreUpdate(sRows, q.id, q.n)
                  [] OTHER -> sRows
    /\ sReqs' = sReqs \ {q}
    /\ sLog' = sLog \cup {[kind |-> q.kind, key |-> RecapKey(q),
                           outcome |-> SItemEffect(q)]}
    /\ UNCHANGED sLeagues

\* The API serves DELETE /leagues/{id}: the league row goes, and with it,
\* by ON DELETE CASCADE on league_id, every recap of the league.
SServeLeague(q) ==
    /\ q \in sReqs /\ q.kind = "league" /\ q.method = "DELETE"
    /\ sLeagues' = sLeagues \ {q.league}
    /\ sRows' = {r \in sRows : r.league # q.league}
    /\ sReqs' = sReqs \ {q}
    /\ sLog' = sLog \cup {[kind |-> q.kind, key |-> RecapKey(q),
                           outcome |-> "deleted"]}

SInit ==
    /\ sRows = {}
    /\ sLeagues = Leagues
    /\ sReqs = {}
    /\ sLog = {}
    /\ sEvents = 0

\* The store when another component is examined.
SIdle == SInit

SNext ==
    \/ SEvent /\ \E key \in RecapKeys : SGenerateSubmit(key)
    \/ SEvent /\ \E key \in RecapKeys : SCreateSave(key)
    \/ SEvent /\ \E row \in sRows : SUpdateSave(row)
    \/ SEvent /\ \E row \in sRows : SRegenerate(row)
    \/ SFree /\ \E q \in sReqs, overwrite \in BOOLEAN : SServeInsert(q, overwrite)
    \/ SFree /\ \E q \in sReqs : SServeUpdate(q)

MaxLEvents == 3

SLifeEvent == sEvents < MaxLEvents /\ sEvents' = sEvents + 1 /\ SOthers

\* A store that already holds the recaps of some weeks of a league.
SLifeInit ==
    /\ \E ws \in SUBSET Weeks :
          sRows = {[id |-> 0 - w, league |-> "L1", week |-> w, season |-> 2024,
                    content |-> 0] : w \in ws}
    /\ sLeagues = Leagues
    /\ sReqs = {}
    /\ sLog = {}
    /\ sEvents = 0

\* The store with the delete buttons of the recap list and of the leagues.
SLifeNext ==
    \/ SLifeEvent /\ \E key \in RecapKeys : SGenerateSubmit(key)
    \/ SLifeEvent /\ \E row \in sRows : SUpdateSave(row)
    \/ SLifeEvent /\ \E row \in sRows : SRegenerate(row)
    \/ SLifeEvent /\ \E row \in sRows, confirmed \in BOOLEAN : SDeleteRecap(row, confirmed)
    \/ SLifeEvent /\ \E league \in sLeagues, confirmed \in BOOLEAN :
                    SDeleteLeague(league, confirmed)
    \/ SFree /\ \E q \in sReqs, overwrite \in BOOLEAN : SServeInsert(q, overwrite)
    \/ SFree /\ \E q \in sReqs : SServeUpdate(q)
    \/ SFree /\ \E q \in sReqs : SServeLeague(q)

(***************************************************************************)
(*                 useWebSocket (the league-sync channel)                  *)
(***************************************************************************)

MaxWEvents == 3
MaxSockets == 5

\* reconnectAttempts: 3, of useLeagueSyncWebSocket
ReconnectAttempts == 3

\* event.code of a close: a clean close, or an abnormal closure.
CloseClean == 1000
CloseAbnormal == 1006

\* What a render of the hook closes over: enabled and user.
WEnvs == [enabled : BOOLEAN, user : BOOLEAN]

\* The refs and the state of the hook, as the handlers see and change them.
WWorld ==
    [sockets |-> wSockets, ref |-> wRef, count |-> wCount, tref |-> wTimerRef,
     timers |-> wTimers, st |-> wState, mounted |-> wMounted]

WSet(w) ==
    /\ wSockets' = w.sockets
    /\ wRef' = w.ref
    /\ wCount' = w.count
    /\ wTimerRef' = w.tref
    /\ wTimers' = w.timers
    /\ wState' = w.st
    /\ wMounted' = w.mounted

\* A state setter: it does nothing once the component is unmounted.
WSetState(w, st) == IF w.mounted THEN [w EXCEPT !.st = st] ELSE w

\* wsRef.current?.readyState === WebSocket.OPEN
WRefOpen(w) == w.ref # 0 /\ w.sockets[w.ref].state = "open"

\* connect creates a socket unless its guard returns early.
WConnectCreates(w, env) == env.enabled /\ env.user /\ ~WRefOpen(w)

\* connect(), of the render that closed over env.
connect(w, env) ==
    IF ~WConnectCreates(w, env) THEN w
    ELSE [w EXCEPT !.sockets = Append(@, [state |-> "connecting", env |-> env]),
                   !.ref = Len(w.sockets) + 1]

\* A mutation of the retry guard: <= in place of <.
WMayRetryInclusive(code, count) == code # CloseClean /\ count <= ReconnectAttempts

\* event.code !== 1000 && reconnectCountRef.current < reconnectAttempts
WMayRetry(code, count) == code # CloseClean /\ count < ReconnectAttempts

\* wsRef.current.onclose of socket id, with event.code = code.
onclose(w, id, code) ==
    LET w1 == WSetState([w EXCEPT !.sockets[id].state = "closed"],
                        [w.st EXCEPT !.isConnected = FALSE])
    IN  IF WMayRetry(code, w.count)
        THEN [w1 EXCEPT !.count = @ + 1,
                        !.timers = @ \cup {[id |-> id, env |-> w.sockets[id].env]},
                        !.tref = id]
        ELSE w1

\* wsRef.current.onopen
onopen(w, id) ==
    [WSetState([w EXCEPT !.sockets[id].state = "open"],
               [isConnected |-> TRUE, error |-> FALSE])
       EXCEPT !.count = 0]

\* wsRef.current.onerror
onerror(w) == WSetState(w, [w.st EXCEPT !.error = TRUE])

\* WebSocket.close(1000, ..): a socket that is connecting or open starts to
\* close; `was` keeps the state it was closed in.
WClose(sock) ==
    IF sock.state \in {"connecting", "open"}
    THEN [sock EXCEPT !.state = IF @ = "open" THEN "closing-open"
                                 ELSE "closing-connecting"]
    ELSE sock

\* disconnect()
disconnect(w) ==
    LET w1 == [w EXCEPT !.timers = {t \in @ : t.id # w.tref}, !.tref = 0]
        w2 == IF w1.ref # 0
              THEN [w1 EXCEPT !.sockets[w1.ref] = WClose(@), !.ref = 0]
              ELSE w1
    IN  [WSetState(w2, [isConnected |-> FALSE, error |-> FALSE])
           EXCEPT !.count = 0]

\* The close codes the browser can report for socket sock.
WCloseCodes(sock) ==
    CASE sock.state = "connecting" -> {CloseAbnormal}
      [] sock.state = "open" -> {CloseClean, CloseAbnormal}
      [] sock.state = "closing-connecting" -> {CloseAbnormal}
      [] sock.state = "closing-open" -> {CloseClean, CloseAbnormal}
      [] OTHER -> {}

WOthers == UNCHANGED <<yVars, eVars, aVars, mVars, pVars, sVars, dVars, lVars, xVars>>
WEvent == wEvents < MaxWEvents /\ wEvents' = wEvents + 1 /\ WOthers
WFree == UNCHANGED wEvents /\ WOthers
WRoom == Len(wSockets) < MaxSockets

\* The effect on [enabled, user, url]: cleanup of the previous render, then
\* connect() of the new one when enabled && user.
WEffect(w, env) ==
    IF env.enabled /\ env.user THEN connect(disconnect(w), env) ELSE disconnect(w)

\* A render with another enabled or user.
WPropsChange(env) ==
    /\ wMounted /\ WRoom
    /\ env # wEnv
    /\ wEnv' = env
    /\ WSet(WEffect(WWorld, env))
    /\ wWanted' = (env.enabled /\ env.user)

\* The component unmounts: both effects' cleanups call disconnect().
WUnmount ==
    /\ wMounted
    /\ WSet([disconnect(disconnect(WWorld)) EXCEPT !.mounted = FALSE])
    /\ wWanted' = FALSE
    /\ UNCHANGED wEnv

\* A consumer calls the connect() the hook returns.
WAppConnect ==
    /\ wMounted /\ WRoom
    /\ WSet(connect(WWorld, wEnv))
    /\ wWanted' = TRUE
    /\ UNCHANGED wEnv

\* A consumer calls the disconnect() the hook returns.
WAppDisconnect ==
    /\ wMounted
    /\ WSet(disconnect(WWorld))
    /\ wWanted' = FALSE
    /\ UNCHANGED wEnv

\* The connection of socket id is established.
WOpens(id) ==
    /\ id \in 1..Len(wSockets)
    /\ wSockets[id].state = "connecting"
    /\ WSet(onopen(WWorld, id))
    /\ UNCHANGED <<wEnv, wWanted>>

\* Socket id closes: the server or the network ends it, or the close the
\* application asked for completes.  An abnormal closure fires error first.
WCloses(id, code) ==
    /\ id \in 1..Len(wSockets)
    /\ code \in WCloseCodes(wSockets[id])
    /\ WSet(onclose(IF code = CloseAbnormal THEN onerror(WWorld) ELSE WWorld,
                    id, code))
    /\ UNCHANGED <<wEnv, wWanted>>

\* The reconnect timer of socket id fires: connect() of that socket's render.
WTimerFires(t) ==
    /\ t \in wTimers /\ WRoom
    /\ WSet(connect([WWorld EXCEPT !.timers = @ \ {t}], t.env))
    /\ UNCHANGED <<wEnv, wWanted>>

WInitState == [isConnected |-> FALSE, error |-> FALSE]

\* After the first render and its effects, for a hook rendered with env.
WMounted(env) ==
    /\ wEnv = env
    /\ wSockets = IF env.enabled /\ env.user
                  THEN <<[state |-> "connecting", env |-> env]>> ELSE <<>>
    /\ wRef = Len(wSockets)
    /\ wCount = 0
    /\ wTimerRef = 0
    /\ wTimers = {}
    /\ wState = WInitState
    /\ wMounted = TRUE
    /\ wWanted = (env.enabled /\ env.user)
    /\ wEvents = 0

WInit == \E env \in WEnvs : env.enabled /\ WMounted(env)

\* The hook with nobody signed in.
WIdle == WMounted([enabled |-> TRUE, user |-> FALSE])

WNext ==
    \/ WEvent /\ \E env \in WEnvs : WPropsChange(env)
    \/ WEvent /\ WUnmount
    \/ WEvent /\ WAppConnect
    \/ WEvent /\ WAppDisconnect
    \/ WFree /\ \E id \in 1..Len(wSockets) : WOpens(id)
    \/ WFree /\ \E id \in 1..Len(wSockets), code \in {CloseClean, CloseAbnormal} :
                   WCloses(id, code)
    \/ WFree /\ \E t \in wTimers : WTimerFires(t)

(***************************************************************************)
(*        The tables of the ownership chain and their row-level policies   *)
(***************************************************************************)

MaxDEvents == 3

Users == {"u1", "u2"}
LeagueIds == {"A", "B"}

\* auth.uid() = user_id, the USING expression of the FOR ALL policies of
\* fantasy_leagues, generated_recaps and weekly_awards.  A FOR ALL policy
\* with no WITH CHECK applies it to the new row of an INSERT or UPDATE too.
DOwnRow(u, row) == u = row.user

\* EXISTS (SELECT 1 FROM weekly_awards WHERE weekly_awards.id =
\* award_winners.award_id AND weekly_awards.user_id = auth.uid())
DOwnAward(u, row) == \E a \in dAwards : a.id = row.award /\ a.user = u

\* REFERENCES fantasy_leagues(id)
DLeagueExists(id) == \E l \in dLeagues : l.id = id

\* REFERENCES weekly_awards(id)
DAwardExists(id) == \E a \in dAwards : a.id = id

\* UNIQUE(league_id, week, season) of generated_recaps, for a row written in
\* place of the row with the id `but`.
DRecapUnique(row, but) ==
    \A r \in dRecaps : r.id # but => ~(r.league = row.league /\ r.week = row.week)

\* UNIQUE(award_id, week, season) of award_winners.
DWinnerUnique(row, but) ==
    \A w \in dWinners : w.id # but => ~(w.award = row.award /\ w.week = row.week)

DOthers == UNCHANGED <<yVars, eVars, aVars, mVars, pVars, sVars, wVars, lVars, xVars>>
DEvent == dEvents < MaxDEvents /\ dEvents' = dEvents + 1 /\ DOthers

\* gen_random_uuid(): an id no row has had.
DNewId == dEvents + 1

\* INSERT INTO fantasy_leagues by user u.
DInsertLeague(u, row) ==
    /\ DOwnRow(u, row)
    /\ ~DLeagueExists(row.id)
    /\ dLeagues' = dLeagues \cup {row}
    /\ UNCHANGED <<dRecaps, dAwards, dWinners>>

\* DELETE FROM fantasy_leagues by user u; ON DELETE CASCADE removes the
\* recaps and awards of the league, and the winners of those awards.
DDeleteLeague(u, l) ==
    /\ l \in dLeagues /\ DOwnRow(u, l)
    /\ dLeagues' = dLeagues \ {l}
    /\ dRecaps' = {r \in dRecaps : r.league # l.id}
    /\ dAwards' = {a \in dAwards : a.league # l.id}
    /\ dWinners' = {w \in dWinners :
                      \E a \in dAwards : a.id = w.award /\ a.league # l.id}

\* INSERT INTO generated_recaps by user u.
DInsertRecap(u, row) ==
    /\ DOwnRow(u, row)
    /\ DLeagueExists(row.league)
    /\ DRecapUnique(row, row.id)
    /\ dRecaps' = dRecaps \cup {row}
    /\ UNCHANGED <<dLeagues, dAwards, dWinners>>

\* UPDATE generated_recaps SET user_id = .., league_id = .. by user u.
DUpdateRecap(u, old, row) ==
    /\ old \in dRecaps /\ row # old
    /\ DOwnRow(u, old) /\ DOwnRow(u, row)
    /\ DLeagueExists(row.league)
    /\ DRecapUnique(row, old.id)
    /\ dRecaps' = (dRecaps \ {old}) \cup {row}
    /\ UNCHANGED <<dLeagues, dAwards, dWinners>>

\* DELETE FROM generated_recaps by user u.
DDeleteRecap(u, old) ==
    /\ old \in dRecaps /\ DOwnRow(u, old)
    /\ dRecaps' = dRecaps \ {old}
    /\ UNCHANGED <<dLeagues, dAwards, dWinners>>

\* INSERT INTO weekly_awards by user u.
DInsertAward(u, row) ==
    /\ DOwnRow(u, row)
    /\ DLeagueExists(row.league)
    /\ dAwards' = dAwards \cup {row}
    /\ UNCHANGED <<dLeagues, dRecaps, dWinners>>

\* DELETE FROM weekly_awards by user u; its winners go with it.
DDeleteAward(u, old) ==
    /\ old \in dAwards /\ DOwnRow(u, old)
    /\ dAwards' = dAwards \ {old}
    /\ dWinners' = {w \in dWinners : w.award # old.id}
    /\ UNCHANGED <<dLeagues, dRecaps>>

\* INSERT INTO award_winners by user u.
DInsertWinner(u, row) ==
    /\ DOwnAward(u, row)
    /\ DAwardExists(row.award)
    /\ DWinnerUnique(row, row.id)
    /\ dWinners' = dWinners \cup {row}
    /\ UNCHANGED <<dLeagues, dRecaps, dAwards>>

\* DELETE FROM award_winners by user u.
DDeleteWinner(u, old) ==
    /\ old \in dWinners /\ DOwnAward(u, old)
    /\ dWinners' = dWinners \ {old}
    /\ UNCHANGED <<dLeagues, dRecaps, dAwards>>

\* The rows of each table that SELECT shows to user u.
DVisibleRecaps(u) == {r \in dRecaps : DOwnRow(u, r)}
DVisibleAwards(u) == {a \in dAwards : DOwnRow(u, a)}
DVisibleWinners(u) == {w \in dWinners : DOwnAward(u, w)}

\* The users a row reaches through its foreign keys.
DLeagueOwners(id) == {l.user : l \in {x \in dLeagues : x.id = id}}
DRowOwners(row) == {row.user} \cup DLeagueOwners(row.league)
DWinnerOwners(w) ==
    UNION {DRowOwners(a) : a \in {x \in dAwards : x.id = w.award}}

\* Every user has connected one league.
DInit ==
    /\ dLeagues = {[id |-> "A", user |-> "u1"], [id |-> "B", user |-> "u2"]}
    /\ dRecaps = {}
    /\ dAwards = {}
    /\ dWinners = {}
    /\ dEvents = 0

\* The tables when another component is examined.
DIdle == DInit

DNext ==
    \/ DEvent /\ \E u \in Users, row \in [id : LeagueIds, user : Users] :
                    DInsertLeague(u, row)
    \/ DEvent /\ \E u \in Users, l \in dLeagues : DDeleteLeague(u, l)
    \/ DEvent /\ \E u \in Users,
                    row \in [id : {DNewId}, user : Users, league : LeagueIds,
                             week : {1}] : DInsertRecap(u, row)
    \/ DEvent /\ \E u \in Users, old \in dRecaps :
                    \E row \in [id : {old.id}, user : Users, league : LeagueIds,
                                week : {1}] : DUpdateRecap(u, old, row)
    \/ DEvent /\ \E u \in Users, old \in dRecaps : DDeleteRecap(u, old)
    \/ DEvent /\ \E u \in Users,
                    row \in [id : {DNewId}, user : Users, league : LeagueIds] :
                    DInsertAward(u, row)
    \/ DEvent /\ \E u \in Users, old \in dAwards : DDeleteAward(u, old)
    \/ DEvent /\ \E u \in Users,
                    row \in [id : {DNewId}, award : 1..MaxDEvents, week : {1}] :
                    DInsertWinner(u, row)
    \/ DEvent /\ \E u \in Users, old \in dWinners : DDeleteWinner(u, old)

(***************************************************************************)
(*          useLeagueSyncWebSocket: lastMessage and syncStatuses           *)
(***************************************************************************)

MaxMessages == 3

SyncLeagues == {"L1", "L2"}
SyncDatas == {"d1", "d2"}
\* A league with no entry in the map.
NoStatus == "none"

\* lastMessage before any message: null.
NoMessage == [n |-> 0, type |-> "null", league |-> "none", data |-> NoStatus]

\* event.data of a message: JSON text of a league_sync_update, JSON text of a
\* message of another type, or text that JSON.parse rejects.
SyncRaws ==
    [parses : {TRUE}, type : {"league_sync_update"}, league : SyncLeagues,
     data : SyncDatas]
    \cup {[parses |-> TRUE, type |-> "pong", league |-> "L1", data |-> "d1"],
          [parses |-> FALSE, type |-> "null", league |-> "none", data |-> NoStatus]}

\* wsRef.current.onmessage: JSON.parse(event.data), then setLastMessage; a
\* parse error is logged.  n is the identity of the parsed object.
onmessage(next, raw, n) ==
    IF raw.parses
    THEN [n |-> n, type |-> raw.type, league |-> raw.league, data |-> raw.data]
    ELSE next

\* The effect on [lastMessage]:
\* if (lastMessage?.type === 'league_sync_update') setSyncStatuses(prev => ..)
LSyncEffect(sync, message) ==
    IF message.type = "league_sync_update"
    THEN [sync EXCEPT ![message.league] = message.data]
    ELSE sync

LOthers == UNCHANGED <<yVars, eVars, aVars, mVars, pVars, sVars, wVars, dVars, xVars>>

\* The socket delivers a message.  lSeen keeps, per league, the data of the
\* last league_sync_update that was delivered.
LMessage(raw) ==
    /\ lEvents < MaxMessages
    /\ lEvents' = lEvents + 1
    /\ lNext' = onmessage(lNext, raw, lEvents + 1)
    /\ lSeen' = IF raw.parses /\ raw.type = "league_sync_update"
                THEN [lSeen EXCEPT ![raw.league] = raw.data] ELSE lSeen
    /\ UNCHANGED <<lLast, lSync>>
    /\ LOthers

\* React renders with the lastMessage that was set last, and the effect runs
\* because lastMessage is another object than in the previous render.
LRender ==
    /\ lNext # lLast
    /\ lLast' = lNext
    /\ lSync' = LSyncEffect(lSync, lNext)
    /\ UNCHANGED <<lNext, lSeen, lEvents>>
    /\ LOthers

LInit ==
    /\ lLast = NoMessage
    /\ lNext = NoMessage
    /\ lSync = [l \in SyncLeagues |-> NoStatus]
    /\ lSeen = [l \in SyncLeagues |-> NoStatus]
    /\ lEvents = 0

\* The hook when another component is examined.
LIdle == LInit

LNext ==
    \/ \E raw \in SyncRaws : LMessage(raw)
    \/ LRender

(***************************************************************************)
(*                    RecapExporter (HTML and Markdown)                    *)
(***************************************************************************)

MaxXEvents == 2

\* Strings are sequences of characters.
XUpperCase ==
    <<"A", "B", "C", "D", "E", "F", "G", "H", "I", "J", "K", "L", "M", "N",
    "O", "P", "Q", "R", "S", "T", "U", "V", "W", "X", "Y", "Z">>
XLowerCase ==
    <<"a", "b", "c", "d", "e", "f", "g", "h", "i", "j", "k", "l", "m", "n",
    "o", "p", "q", "r", "s", "t", "u", "v", "w", "x", "y", "z">>

\* The /i flag: letters compare without case.
XLower(c) ==
    IF \E k \in 1..26 : XUpperCase[k] = c
    THEN XLowerCase[CHOOSE k \in 1..26 : XUpperCase[k] = c]
    ELSE c

\* White space, as trim() sees it, and the line terminators that . excludes.
XWhite == {" ", "\n", "\t", "\r"}
XLineEnds == {"\n", "\r"}

\* The lower-case literal lit occurs in s at position i.
XMatchAt(s, i, lit) ==
    /\ i >= 1
    /\ i + Len(lit) - 1 <= Len(s)
    /\ \A k \in 1..Len(lit) : XLower(s[i + k - 1]) = lit[k]

\* The least member of a non-empty set of positions.
XFirst(J) == CHOOSE j \in J : \A k \in J : j <= k

\* The first position from i on where lit occurs, or 0.
XIndexOf(s, i, lit) ==
    LET J == {j \in i..Len(s) : XMatchAt(s, j, lit)}
    IN IF J = {} THEN 0 ELSE XFirst(J)

\* A match of /<name[^>]*>(.*?)<\/name>/i that starts at position i.
XElementAt(s, i, name) ==
    LET open == <<"<">> \o name
        close == <<"<", "/">> \o name \o <<">">>
        gt == IF XMatchAt(s, i, open) THEN XIndexOf(s, i + Len(open), <<">">>)
              ELSE 0
        c == IF gt = 0 THEN 0 ELSE XIndexOf(s, gt + 1, close)
        ok == c # 0 /\ \A k \in (gt + 1)..(c - 1) : s[k] \notin XLineEnds
    IN [ok |-> ok,
        inner |-> IF ok THEN SubSeq(s, gt + 1, c - 1) ELSE <<>>,
        end |-> c + Len(close) - 1]

\* .replace(/<name[^>]*>(.*?)<\/name>/gi, pre + '$1' + post), from position i:
\* the text up to the next match is kept, the match is replaced, and the
\* search goes on behind it.
RECURSIVE XReplaceElement(_, _, _, _, _)
XReplaceElement(s, i, name, pre, post) ==
    LET J == {j \in i..Len(s) : XElementAt(s, j, name).ok}
    IN IF J = {} THEN SubSeq(s, i, Len(s))
       ELSE LET m == XElementAt(s, XFirst(J), name)
            IN SubSeq(s, i, XFirst(J) - 1) \o pre \o m.inner \o post
               \o XReplaceElement(s, m.end + 1, name, pre, post)

\* .replace(/<name[^>]*>/gi, ''), from position i; with the empty name this
\* is .replace(/<[^>]*>/g, '').
XOpenEnd(s, j, name) ==
    IF XMatchAt(s, j, <<"<">> \o name)
    THEN XIndexOf(s, j + 1 + Len(name), <<">">>) ELSE 0
RECURSIVE XRemoveOpen(_, _, _)
XRemoveOpen(s, i, name) ==
    LET J == {j \in i..Len(s) : XOpenEnd(s, j, name) # 0}
    IN IF J = {} THEN SubSeq(s, i, Len(s))
       ELSE SubSeq(s, i, XFirst(J) - 1)
            \o XRemoveOpen(s, XOpenEnd(s, XFirst(J), name) + 1, name)

\* .replace(/lit/gi, rep), from position i.
RECURSIVE XReplaceLiteral(_, _, _, _)
XReplaceLiteral(s, i, lit, rep) ==
    LET j == XIndexOf(s, i, lit)
    IN IF j = 0 THEN SubSeq(s, i, Len(s))
       ELSE SubSeq(s, i, j - 1) \o rep
            \o XReplaceLiteral(s, j + Len(lit), lit, rep)

XHref == <<"h", "r", "e", "f", "=", "\"">>
XCloseA == <<"<", "/", "a", ">">>

\* A match of /<a[^>]*href="([^"]*)"[^>]*>(.*?)<\/a>/i that starts at i with
\* href=" taken at position h.
XLinkWith(s, i, h) ==
    LET q == XIndexOf(s, h + Len(XHref), <<"\"">>)
        gt == IF q = 0 THEN 0 ELSE XIndexOf(s, q + 1, <<">">>)
        c == IF gt = 0 THEN 0 ELSE XIndexOf(s, gt + 1, XCloseA)
        ok == c # 0 /\ \A k \in (gt + 1)..(c - 1) : s[k] \notin XLineEnds
    IN [ok |-> ok,
        href |-> IF ok THEN SubSeq(s, h + Len(XHref), q - 1) ELSE <<>>,
        inner |-> IF ok THEN SubSeq(s, gt + 1, c - 1) ELSE <<>>,
        end |-> c + Len(XCloseA) - 1]

\* The match at i: the greedy [^>]* takes the last href=" that lets the rest
\* of the pattern match.
XLinkAt(s, i) ==
    LET H == IF XMatchAt(s, i, <<"<", "a">>)
             THEN {h \in (i + 2)..Len(s) :
                     /\ XMatchAt(s, h, XHref)
                     /\ \A k \in (i + 2)..(h - 1) : s[k] # ">"
                     /\ XLinkWith(s, i, h).ok}
             ELSE {}
    IN IF H = {} THEN [ok |-> FALSE, href |-> <<>>, inner |-> <<>>, end |-> 0]
       ELSE XLinkWith(s, i, CHOOSE h \in H : \A k \in H : k <= h)

\* .replace(/<a[^>]*href="([^"]*)"[^>]*>(.*?)<\/a>/gi, '[$2]($1)')
RECURSIVE XReplaceLinks(_, _)
XReplaceLinks(s, i) ==
    LET J == {j \in i..Len(s) : XLinkAt(s, j).ok}
    IN IF J = {} THEN SubSeq(s, i, Len(s))
       ELSE LET m == XLinkAt(s, XFirst(J))
            IN SubSeq(s, i, XFirst(J) - 1)
               \o <<"[">> \o m.inner \o <<"]", "(">> \o m.href \o <<")">>
               \o XReplaceLinks(s, m.end + 1)

\* The length of the run of newlines that starts at position i.
RECURSIVE XNewlineRun(_, _)
XNewlineRun(s, i) ==
    IF i <= Len(s) /\ s[i] = "\n" THEN 1 + XNewlineRun(s, i + 1) ELSE 0

\* .replace(/\n{3,}/g, '\n\n')
RECURSIVE XCollapseNewlines(_, _)
XCollapseNewlines(s, i) ==
    LET J == {j \in i..Len(s) : XNewlineRun(s, j) >= 3}
    IN IF J = {} THEN SubSeq(s, i, Len(s))
       ELSE SubSeq(s, i, XFirst(J) - 1) \o <<"\n", "\n">>
            \o XCollapseNewlines(s, XFirst(J) + XNewlineRun(s, XFirst(J)))

\* .trim()
RECURSIVE XTrimLeft(_)
XTrimLeft(s) == IF s # <<>> /\ Head(s) \in XWhite THEN XTrimLeft(Tail(s)) ELSE s
RECURSIVE XTrimRight(_)
XTrimRight(s) ==
    IF s # <<>> /\ s[Len(s)] \in XWhite
    THEN XTrimRight(SubSeq(s, 1, Len(s) - 1)) ELSE s
XTrim(s) == XTrimRight(XTrimLeft(s))

\* The heading tag h<level>, and level times '#'.
XHeadingTag(level) == <<"h", <<"1", "2", "3", "4", "5", "6">>[level]>>
RECURSIVE XHashes(_)
XHashes(level) == IF level = 0 THEN <<>> ELSE <<"#">> \o XHashes(level - 1)

\* The six heading substitutions, h1 first.
RECURSIVE XHeadings(_, _)
XHeadings(s, level) ==
    IF level > 6 THEN s
    ELSE XHeadings(XReplaceElement(s, 1, XHeadingTag(level),
                                   XHashes(level) \o <<" ">>, <<"\n">>),
                   level + 1)

XParagraphs(s) == XReplaceElement(s, 1, <<"p">>, <<>>, <<"\n", "\n">>)

XBoldItalic(s) ==
    LET s1 == XReplaceElement(s, 1, <<"s", "t", "r", "o", "n", "g">>, <<"*", "*">>, <<"*", "*">>)
        s2 == XReplaceElement(s1, 1, <<"b">>, <<"*", "*">>, <<"*", "*">>)
        s3 == XReplaceElement(s2, 1, <<"e", "m">>, <<"*">>, <<"*">>)
    IN XReplaceElement(s3, 1, <<"i">>, <<"*">>, <<"*">>)

XLists(s) ==
    LET s1 == XRemoveOpen(s, 1, <<"u", "l">>)
        s2 == XReplaceLiteral(s1, 1, <<"<", "/", "u", "l", ">">>, <<"\n">>)
        s3 == XRemoveOpen(s2, 1, <<"o", "l">>)
        s4 == XReplaceLiteral(s3, 1, <<"<", "/", "o", "l", ">">>, <<"\n">>)
    IN XReplaceElement(s4, 1, <<"l", "i">>, <<"-", " ">>, <<"\n">>)

XBlockquotes(s) ==
    XReplaceElement(s, 1, <<"b", "l", "o", "c", "k", "q", "u", "o", "t", "e">>,
                    <<">", " ">>, <<"\n">>)

\* A mutation of the tag stripping: nothing is removed.
XKeepTags(s) == s

\* .replace(/<[^>]*>/g, '')
XStripTags(s) == XRemoveOpen(s, 1, <<>>)

\* The chain of substitutions of exportAsMarkdown, in its order.
XMarkdownOf(html) ==
    XTrim(XCollapseNewlines(
        XStripTags(XReplaceLinks(XBlockquotes(XLists(XBoldItalic(
            XParagraphs(XHeadings(html, 1))))), 1)), 1))

\* What the serializer writes for the characters of a text node.
XEscapeChar(c) ==
    CASE c = "<" -> <<"&", "l", "t", ";">>
      [] c = ">" -> <<"&", "g", "t", ";">>
      [] c = "&" -> <<"&", "a", "m", "p", ";">>
      [] OTHER -> <<c>>

RECURSIVE XEscape(_)
XEscape(t) == IF t = <<>> THEN <<>> ELSE XEscapeChar(Head(t)) \o XEscape(Tail(t))

XSpanOpen ==
    <<"<", "s", "p", "a", "n", " ", "s", "t", "y", "l", "e", "=", "\"",
    "w", "h", "i", "t", "e", "-", "s", "p", "a", "c", "e", ":", " ", "p",
    "r", "e", "-", "w", "r", "a", "p", ";", "\"", ">">>
XDir == <<" ", "d", "i", "r", "=", "\"", "l", "t", "r", "\"">>
XTag(name, attrs, inner) ==
    <<"<">> \o name \o attrs \o <<">">> \o inner \o <<"<", "/">> \o name \o <<">">>

\* The HTML of one text run: plain, bold, italic, or a link.
XRunHtml(run) ==
    LET text == XEscape(run.text)
        span == XSpanOpen \o text \o <<"<", "/", "s", "p", "a", "n", ">">>
    IN CASE run.fmt = "bold" ->
              XTag(<<"b">>, <<>>, XTag(<<"s", "t", "r", "o", "n", "g">>,
                                        <<" ", "s", "t", "y", "l", "e", "=", "\"", "s", "\"">>, text))
         [] run.fmt = "italic" ->
              XTag(<<"i">>, <<>>, XTag(<<"e", "m">>, <<" ", "s", "t", "y", "l", "e", "=", "\"", "s", "\"">>, text))
         [] run.fmt = "link" ->
              XTag(<<"a">>, <<" ", "h", "r", "e", "f", "=", "\"", "u", "\"">>, span)
         [] OTHER -> span

RECURSIVE XRunsHtml(_)
XRunsHtml(runs) ==
    IF runs = <<>> THEN <<>> ELSE XRunHtml(Head(runs)) \o XRunsHtml(Tail(runs))

RECURSIVE XItemsHtml(_, _)
XItemsHtml(runs, n) ==
    IF runs = <<>> THEN <<>>
    ELSE XTag(<<"l", "i">>, <<" ", "v", "a", "l", "u", "e", "=", "\"", "1", "\"">>, XRunHtml(Head(runs)))
         \o XItemsHtml(Tail(runs), n + 1)

\* The HTML of one block: a list, an empty block, or a block of text runs.
XBlockHtml(block) ==
    IF block.tag \in {<<"u", "l">>, <<"o", "l">>}
    THEN XTag(block.tag, <<>>, XItemsHtml(block.runs, 1))
    ELSE IF block.runs = <<>> THEN XTag(block.tag, <<>>, <<"<", "b", "r", ">">>)
    ELSE XTag(block.tag, XDir, XRunsHtml(block.runs))

\* $generateHtmlFromNodes(editor, null): the blocks one after another.
RECURSIVE GenerateHtml(_)
GenerateHtml(doc) ==
    IF doc = <<>> THEN <<>> ELSE XBlockHtml(Head(doc)) \o GenerateHtml(Tail(doc))

\* exportAsHTML(options)
exportAsHTML(doc, options) ==
    IF options.includeTitle /\ options.title # <<>>
    THEN <<"<", "h", "1", ">">> \o options.title \o <<"<", "/", "h", "1", ">", "\n">> \o GenerateHtml(doc)
    ELSE GenerateHtml(doc)

\* exportAsMarkdown(options)
exportAsMarkdown(doc, options) == XMarkdownOf(exportAsHTML(doc, options))

\* A mutation of the read: the editor state is cleared by it.
XReadClears(doc) == <<>>

\* editor.getEditorState().read(..) leaves the editor state as it is.
XRead(doc) == doc

\* Documents of the editor.
XPlain(t) == [fmt |-> "plain", text |-> t]
XPara(runs) == [tag |-> <<"p">>, runs |-> runs]
XPlainDocs ==
    { <<XPara(<<XPlain(<<"a", "b">>)>>)>>,
      <<XPara(<<XPlain(<<"a">>)>>), XPara(<<XPlain(<<"b">>)>>)>>,
      <<XPara(<<XPlain(<<"a">>)>>), XPara(<<>>), XPara(<<>>),
        XPara(<<XPlain(<<"b">>)>>)>>,
      <<XPara(<<XPlain(<<" ", "a", " ">>)>>)>>,
      <<XPara(<<XPlain(<<"a", "<", "b", ">", "c">>)>>)>>,
      <<XPara(<<>>)>> }
XRichDocs ==
    { <<[tag |-> <<"h", "2">>, runs |-> <<XPlain(<<"H">>)>>],
        XPara(<<XPlain(<<"a">>), [fmt |-> "bold", text |-> <<"b">>],
                [fmt |-> "italic", text |-> <<"c">>]>>)>>,
      <<[tag |-> <<"b", "l", "o", "c", "k", "q", "u", "o", "t", "e">>,
         runs |-> <<XPlain(<<"q">>)>>],
        [tag |-> <<"u", "l">>, runs |-> <<XPlain(<<"x">>), XPlain(<<"y">>)>>]>>,
      <<XPara(<<[fmt |-> "link", text |-> <<"t">>]>>),
        [tag |-> <<"o", "l">>, runs |-> <<XPlain(<<"x">>)>>]>> }
XDocs == XPlainDocs \cup XRichDocs

\* Titles the user can type; the title is not escaped by exportAsHTML.
XTitles == { <<>>, <<"T">>, <<"a", "<", "b">>, <<" ", "T", " ">> }

XOthers == UNCHANGED <<yVars, eVars, aVars, mVars, pVars, sVars, wVars, dVars, lVars>>
XEvent == xEvents < MaxXEvents /\ xEvents' = xEvents + 1 /\ XOthers

\* The user edits the document.
XEdit(doc) ==
    /\ doc # xDoc
    /\ xDoc' = doc
    /\ UNCHANGED <<xTitle, xExports>>

\* handleTitleChange
XTitleChange(t) ==
    /\ t # xTitle
    /\ xTitle' = t
    /\ UNCHANGED <<xDoc, xExports>>

\* exportAsMarkdown is called with options; xExports keeps what each call
\* was made on and what it returned.
XExportMarkdown(includeTitle) ==
    LET options == [format |-> "markdown", title |-> xTitle,
                    includeTitle |-> includeTitle]
    IN /\ xExports' = xExports \cup
              {[doc |-> xDoc, options |-> options,
                out |-> exportAsMarkdown(xDoc, options), n |-> xEvents + 1]}
       /\ xDoc' = XRead(xDoc)
       /\ UNCHANGED xTitle

XInit ==
    /\ xDoc \in XDocs
    /\ xTitle \in XTitles
    /\ xExports = {}
    /\ xEvents = 0

\* The exporter when another component is examined.
XIdle ==
    /\ xDoc = <<XPara(<<>>)>>
    /\ xTitle = <<>>
    /\ xExports = {}
    /\ xEvents = 0

XNext ==
    \/ XEvent /\ \E doc \in XDocs : XEdit(doc)
    \/ XEvent /\ \E t \in XTitles : XTitleChange(t)
    \/ XEvent /\ \E includeTitle \in BOOLEAN : XExportMarkdown(includeTitle)

(***************************************************************************)
(*                           Specifications                                *)
(***************************************************************************)

\* The code relay of YahooLeagueConnection alone.
Init == YInit /\ EIdle /\ AIdle /\ MIdle /\ PIdle /\ SIdle /\ WIdle /\ DIdle /\ LIdle /\ XIdle

SpecYahoo == Init /\ [][YNext]_vars

\* The recap editor alone.
YIdle ==
    /\ yUrl = [code |-> NULL, state |-> NULL]
    /\ LET w == YEffects(YUnmounted(NoSession), TRUE)
       IN /\ yc = w.c
          /\ yn = w.n
          /\ yEff = w.eff
          /\ yTimers = w.timers
          /\ yCalls = w.calls
          /\ yPosts = w.posts
          /\ ySubmitted = w.submitted
          /\ yGets = w.gets
    /\ yAuthReqs = 0
    /\ yAttempts = <<>>
    /\ yWindows = [wid \in WindowIds |-> "none"]
    /\ yEvents = 0

InitEditor == EInit /\ YIdle /\ AIdle /\ MIdle /\ PIdle /\ SIdle /\ WIdle /\ DIdle /\ LIdle /\ XIdle

SpecEditor == InitEditor /\ [][ENext]_vars

\* A pending render is performed, an armed timer that is not cleared fires,
\* and the promise of every onSave call settles.
FairSpecEditor ==
    /\ SpecEditor
    /\ WF_vars(EFree /\ ERender)
    /\ \A id \in TimerIds : WF_vars(EFree /\ ETimerFire(id))
    /\ WF_vars(EFree /\ \E i \in 1..Len(eSaves), ok \in BOOLEAN : ESaveSettle(i, ok))


\* The handlers of the editor, called in every state.
SpecHandlers == InitEditor /\ [][EHandlersNext]_vars

\* The editor on its page.
SpecPage == InitEditor /\ [][EPageNext]_vars

\* The fetch hook alone.
InitApi == AInit /\ YIdle /\ EIdle /\ MIdle /\ PIdle /\ SIdle /\ WIdle /\ DIdle /\ LIdle /\ XIdle

SpecApi == InitApi /\ [][ANext]_vars

\* The mutation hook of the delete buttons alone.
InitMutation == MInit /\ YIdle /\ EIdle /\ AIdle /\ PIdle /\ SIdle /\ WIdle /\ DIdle /\ LIdle /\ XIdle

SpecMutation == InitMutation /\ [][MNext]_vars

\* The paginated recap list alone.
InitRecaps == PInit /\ YIdle /\ EIdle /\ AIdle /\ MIdle /\ SIdle /\ WIdle /\ DIdle /\ LIdle /\ XIdle

SpecRecaps == InitRecaps /\ [][PNext]_vars

\* The recap store alone.
InitStore == SInit /\ YIdle /\ EIdle /\ AIdle /\ MIdle /\ PIdle /\ WIdle /\ DIdle /\ LIdle /\ XIdle

SpecStore == InitStore /\ [][SNext]_vars

\* The recap store and the deletions.
InitLifecycle == SLifeInit /\ YIdle /\ EIdle /\ AIdle /\ MIdle /\ PIdle /\ WIdle /\ DIdle /\ LIdle /\ XIdle

SpecLifecycle == InitLifecycle /\ [][SLifeNext]_vars


\* The realtime channel alone.
InitSocket == WInit /\ YIdle /\ EIdle /\ AIdle /\ MIdle /\ PIdle /\ SIdle /\ DIdle /\ LIdle /\ XIdle

SpecSocket == InitSocket /\ [][WNext]_vars

\* The popup flow alone: a signed-in user and no code in the page URL.
InitPopup == Init /\ yUrl.code = NULL /\ yc.session # NoSession

SpecPopup == InitPopup /\ [][YPopupNext]_vars

\* The popup flow with its timers: a pending render is committed, an interval
\* keeps ticking and a 5-minute timer fires.
FairSpecPopup ==
    /\ SpecPopup
    /\ WF_vars(YFree /\ YRender)
    /\ WF_vars(YFree /\ YQuiet /\ \E a \in 1..Len(yAttempts) : YPollTick(a))
    /\ WF_vars(YFree /\ YQuiet /\ \E a \in 1..Len(yAttempts) : YFallback(a))

\* The tables of the ownership chain alone.
InitTables == DInit /\ YIdle /\ EIdle /\ AIdle /\ MIdle /\ PIdle /\ SIdle /\ WIdle /\ LIdle /\ XIdle

SpecTables == InitTables /\ [][DNext]_vars

\* The league-sync messages alone.
InitSync == LInit /\ YIdle /\ EIdle /\ AIdle /\ MIdle /\ PIdle /\ SIdle /\ WIdle /\ DIdle /\ XIdle

SpecSync == InitSync /\ [][LNext]_vars

\* The exporter alone.
InitExport == XInit /\ YIdle /\ EIdle /\ AIdle /\ MIdle /\ PIdle /\ SIdle /\ WIdle /\ DIdle /\ LIdle

SpecExport == InitExport /\ [][XNext]_vars

\* ---- properties of the code relay ------------------------------------------------

UrlABC == <<UrlBase, "?", "code", "=", "ABC123", "&", "state", "=", "xyz">>

\* C1: once handleYahooCallback has put a code into the processed set (its
\* setProcessedCodes call is queued or committed), no step issues a further
\* token-exchange POST for that code while the code is in the set.
C1_NoResubmitWhileProcessed ==
    [][\A code \in Codes :
          code \in yn.processedCodes => yPosts'[code] = yPosts[code]]_vars

\* C2: a click on "Complete Connection" with the text ...?code=ABC123&state=xyz.
\* If the code was submitted by an earlier click and has not expired, nothing
\* is posted; otherwise, unless the processed set of the render holds the code,
\* exactly the pair (ABC123, xyz) is posted.
C2_ManualSubmit ==
    [][(YManualClick /\ yc.callbackUrl = UrlABC) =>
          IF ySubmitted["ABC123"] > 0 \/ "ABC123" \in yc.processedCodes
          THEN yPosts' = yPosts /\ yCalls' = yCalls
          ELSE /\ yPosts' = [yPosts EXCEPT !["ABC123"] = @ + 1]
               /\ yCalls' = Append(yCalls, [code |-> "ABC123", state |-> "xyz",
                                            via |-> "manual", phase |-> "exchange"])]_vars

\* C2 witness: the text was submitted a second time and only one request for
\* its code was ever issued.
C2_Witness ==
    /\ ySubmitted["ABC123"] = 2
    /\ yPosts["ABC123"] = 1
    /\ yn.callbackUrl = Blank


\* ---- the order of the requests of the code relay -------------------------------------

\* The number of relay chains that wait for the response of the given request.
YWaiting(calls, phase) ==
    Cardinality({i \in 1..Len(calls) : calls[i].phase = phase})

\* C15: a league import is issued only by a token-exchange response that was
\* ok with success true, a failed or rejected exchange issues none, and the
\* league list is requested by the chain only after an import that reported
\* success.
C15_ExchangeBeforeImport ==
    [][/\ YWaiting(yCalls', "import") > YWaiting(yCalls, "import") =>
             \E i \in 1..Len(yCalls) : YExchangeResponse(i, "success")
       /\ \A i \in 1..Len(yCalls), o \in ExchangeOutcomes \ {"success"} :
             YExchangeResponse(i, o) =>
                YWaiting(yCalls', "import") = YWaiting(yCalls, "import")
       /\ YWaiting(yCalls', "leagues") > YWaiting(yCalls, "leagues") =>
             \E i \in 1..Len(yCalls) : YImportResponse(i, "success")
       /\ YWaiting(yCalls', "exchange") > YWaiting(yCalls, "exchange") =>
             \E code \in Codes : yPosts'[code] = yPosts[code] + 1]_vars

\* The chain of code ABC123 was exchanged, imported, and now refreshes the list.
C15_Witness ==
    \E i \in 1..Len(yCalls) :
        /\ yCalls[i].code = "ABC123"
        /\ yCalls[i].phase = "leagues"
        /\ yPosts["ABC123"] = 1

\* C16: a failed exchange whose message contains "Authorization code expired"
\* or "invalid_grant" sets the expired-code error, any other failure sets the
\* server's message or a generic authentication-failure message, and after
\* every exchange response that ends the chain, and when the chain of a
\* successful exchange ends, loading and connectingYahoo are false.
C16_ExchangeErrors ==
    [][\A i \in 1..Len(yCalls) :
          /\ \A o \in ExchangeOutcomes \ {"success"} :
                YExchangeResponse(i, o) =>
                   /\ yn'.error \in
                         CASE o \in {"expired", "grant"} -> {ErrExpired}
                           [] o = "detail" -> {ErrServerDetail}
                           [] OTHER -> {ErrAuthGeneric, ErrAuthThrow}
                   /\ ~yn'.loading /\ ~yn'.connectingYahoo
          /\ \A o \in LeaguesOutcomes :
                YChainLeaguesResponse(i, o) =>
                   ~yn'.loading /\ ~yn'.connectingYahoo
          /\ \A o \in ImportOutcomes \ {"success"} :
                YImportResponse(i, o) =>
                   ~yn'.loading /\ ~yn'.connectingYahoo]_vars

\* The exchange of code ABC123 has failed with an expired code: the chain
\* is over, the expired-code error is set.
C16_Witness ==
    /\ yPosts["ABC123"] = 1
    /\ yCalls = <<>>
    /\ yn.error = ErrExpired
    /\ ~yn.loading /\ ~yn.connectingYahoo

\* ---- properties of the recap editor ------------------------------------------

\* Revisions with an onSave call pending.
EPending == {eSaves[i].rev : i \in 1..Len(eSaves)}

\* C3: one set of edits never produces two save calls: no onSave call is made
\* for a revision that has a call pending, and auto-save makes no call for a
\* revision that was already saved.
C3_NoDoubleSave ==
    [][Len(eSaves') = Len(eSaves) + 1 =>
          LET s == eSaves'[Len(eSaves')]
          IN /\ s.rev \notin EPending
             /\ s.kind = "auto" => s.rev \notin eDone]_vars

\* No further edit arrives, the draft is unsaved and title and content are
\* both non-blank.
ESettledUnsaved ==
    /\ eEvents = MaxEEvents
    /\ en.hasUnsavedChanges
    /\ NonBlank(en.title)
    /\ NonBlank(en.editorState)

\* C4: once the edits have stopped with unsaved changes and non-blank title
\* and content, onSave is eventually called with the latest title and content.
C4_EventuallySaved == [](ESettledUnsaved => <>(en.rev \in eInvoked))

\* C19: onSave is never called with a blank title, by handleSave or by
\* handleAutoSave, and a handleSave call with a blank title shows the prompt
\* and changes nothing else: no state, no save.
C19_NoBlankTitleSave ==
    /\ [](\A i \in 1..Len(eSaves) : NonBlank(eSaves[i].title))
    /\ [](~NonBlank(ec.title) => handleSave(EWorld) = EAlert(EWorld, AlertTitle))
    /\ [][(/\ Len(eAlerts') = Len(eAlerts) + 1
           /\ eAlerts'[Len(eAlerts')] = AlertTitle)
             => /\ ~NonBlank(ec.title)
                /\ ec' = ec /\ en' = en /\ eSaves' = eSaves
                /\ eInvoked' = eInvoked]_vars

\* The prompt was shown for a blank title, and after a title was typed
\* onSave was called, with that title.
C19_Witness ==
    /\ Len(eAlerts) > 0 /\ eAlerts[1] = AlertTitle
    /\ \E i \in 1..Len(eSaves) : eSaves[i].title = <<"W">>

\* C20: when the request of a save fails, the editor keeps
\* hasUnsavedChanges true, the failure is reported, and the router stays on
\* the editor page.
C20_FailedSaveSurfaced ==
    [][\A i \in 1..Len(eSaves) :
          EPageSettle(i, FALSE) =>
             /\ en'.hasUnsavedChanges
             /\ Len(eAlerts') > Len(eAlerts)
             /\ eRoute' = "editor"]_vars


\* ---- properties of useApi ------------------------------------------------------

\* fetchData calls of one origin that have not issued their GET yet.
ASessionPending(by) ==
    Cardinality({i \in 1..Len(aReqs) : aReqs[i].by = by /\ aReqs[i].phase = "session"})

\* After mounting alone the effect has fetched iff the flag is set, and every
\* fetchData call issues exactly one GET (once the session lookup returned).
C5_State ==
    /\ aEvents = 0 => aStarted.effect = (IF aProps.immediate THEN 1 ELSE 0)
    /\ aIssued.effect + ASessionPending("effect") = aStarted.effect
    /\ aIssued.refetch + ASessionPending("refetch") = aStarted.refetch

\* A step starts an automatic fetch iff it renders the hook with the flag set
\* and with a changed endpoint, flag or dependency.
C5_Step ==
    aStarted'.effect =
        aStarted.effect + (IF aProps' # aProps /\ aProps'.immediate THEN 1 ELSE 0)

\* C5: useApi fetches automatically exactly when immediate is set, at mount
\* and at each change of the endpoint or of the dependency list; with
\* immediate false it issues no request until refetch() is called, and then
\* exactly one GET per call.
C5_AutoFetchIffImmediate == []C5_State /\ [][C5_Step]_vars

\* C5 witness: a hook that never had the flag set has issued two GETs, one for
\* each of the two refetch() calls, while its dependencies changed.
C5_Witness ==
    /\ ~aProps.immediate
    /\ aStarted = [effect |-> 0, refetch |-> 2]
    /\ aIssued = [effect |-> 0, refetch |-> 2]
    /\ aEvents = 3

\* C8 as stated: the status alone decides the final state: a non-success
\* status ends in { null, false, "HTTP <status>: <statusText>" } and a success
\* status in { parsed body, false, null }.
C8_StatusDecides ==
    [][\A i \in 1..Len(aReqs), r \in Responses :
          AFetchSettled(i, r) =>
             IF ResponseOk(r.st)
             THEN /\ aState'.error = NoError
                  /\ aState'.loading = FALSE
                  /\ JsonParses(r.body) => aState'.data = JsonValue(r.body)
             ELSE aState' = [data |-> NULL, loading |-> FALSE,
                             error |-> <<"HTTP ", r.st.status, ": ", r.st.statusText>>]]_vars

\* C8 amended: a non-success status ends in { null, false, "HTTP <status>:
\* <statusText>" }; a success status whose body parses as JSON ends in
\* { parsed body, false, null }; a success status whose body does not parse
\* ends in { null, false, message of the parser }.  No failure keeps data.
C8_StatusAndBodyDecide ==
    [][\A i \in 1..Len(aReqs), r \in Responses :
          AFetchSettled(i, r) =>
             IF ~ResponseOk(r.st)
             THEN aState' = [data |-> NULL, loading |-> FALSE,
                             error |-> <<"HTTP ", r.st.status, ": ", r.st.statusText>>]
             ELSE IF JsonParses(r.body)
             THEN aState' = [data |-> JsonValue(r.body), loading |-> FALSE,
                             error |-> NoError]
             ELSE /\ aState'.data = NULL
                  /\ aState'.loading = FALSE
                  /\ aState'.error # NoError]_vars

\* C8 witness: the second request of a hook has failed with status 500 and
\* nothing is in flight.
C8_Witness ==
    /\ aState = [data |-> NULL, loading |-> FALSE,
                 error |-> <<"HTTP ", "500", ": ", "Internal Server Error">>]
    /\ aIssued.effect + aIssued.refetch = 2
    /\ aReqs = <<>>


\* ---- properties of useApiMutation -------------------------------------------------

\* Requests of the hook instance that were issued and have not completed.
MInFlight == {i \in 1..Len(mCalls) : mCalls[i].phase = "fetch"}

\* C6: at most one request of a useApiMutation instance is in flight.
C6_OneInFlight == Cardinality(MInFlight) <= 1

\* C7: when mutate resolves, it resolves to the parsed body with the hook's
\* error unset, or to null with the error set; loading is false.
C7_ResolvesCleanly ==
    [][\A i \in 1..Len(mCalls), r \in Responses \cup Rejections :
          MFetchSettled(i, r) =>
             /\ mState'.loading = FALSE
             /\ IF mCalls'[i].result # NULL
                THEN mState'.error = NoError
                ELSE mState'.error # NoError]_vars


\* ---- properties of the paginated recap list ---------------------------------------

C10_OneRowPerTriple ==
    /\ \A r1, r2 \in sRows : RecapKey(r1) = RecapKey(r2) => r1 = r2
    /\ \A e \in sLog : \E r \in sRows : RecapKey(r) = e.key

\* Two generation requests and a create request for one triple were served:
\* one created the row, one was rejected, one overwrote it.
C10_Witness ==
    \E key \in RecapKeys :
        /\ [kind |-> "generate", key |-> key, outcome |-> "created"] \in sLog
        /\ [kind |-> "generate", key |-> key, outcome |-> "rejected"] \in sLog
        /\ [kind |-> "create", key |-> key, outcome |-> "overwritten"] \in sLog
        /\ Cardinality({r \in sRows : RecapKey(r) = key}) = 1

C11_NoReconnectAfterDisconnect ==
    [][(~wWanted /\ ~wWanted') => Len(wSockets') = Len(wSockets)]_vars


\* C12: the reconnect counter never exceeds reconnectAttempts, every timer
\* that is armed raises it by one, and a close that finds it at
\* reconnectAttempts schedules no further attempt.
C12_BoundedReconnect ==
    /\ [](wCount <= ReconnectAttempts)
    /\ [][/\ wTimers' \ wTimers # {} => wCount' = wCount + 1 /\ wCount < ReconnectAttempts
          /\ wCount = ReconnectAttempts => wTimers' \subseteq wTimers]_vars

\* Three reconnections in a row failed and the fourth socket has closed
\* uncleanly too: nothing is scheduled.
C12_Witness ==
    /\ wCount = ReconnectAttempts
    /\ wTimers = {}
    /\ Len(wSockets) = ReconnectAttempts + 1
    /\ \A id \in 1..Len(wSockets) : wSockets[id].state = "closed"
    /\ wWanted


\* ---- nothing is retried automatically ---------------------------------------------

\* The step issues a GET /recaps for page q.
PIssues(q) ==
    Len(SelectSeq(pReqs', LAMBDA x : x = q)) > Len(SelectSeq(pReqs, LAMBDA x : x = q))

\* C13: a request that failed is issued again only by an act of the user
\* (Next, Previous, Try again).
C13_NoAutomaticRetry ==
    [][\A q \in pFailed :
          PIssues(q) => (PNextClick \/ PPrevClick \/ PRetryClick)]_vars


\* ---- properties of the popup flow ---------------------------------------------------

\* C14: a poll tick that finds the popup closed with no message posted shows
\* the manual prompt and ends connectingYahoo; once a yahoo_auth_success
\* message was received, neither the poll nor the fallback timer shows the
\* manual prompt.
C14_ManualOnlyWithoutMessage ==
    [][\A a \in 1..Len(yAttempts) :
          /\ (YPollTick(a) /\ ~yAttempts[a].posted) =>
                (yn'.showManualAuth /\ ~yn'.connectingYahoo)
          /\ ((YPollTick(a) \/ YFallback(a)) /\ yAttempts[a].posted) =>
                ~yn'.showManualAuth]_vars


\* ---- properties of the ownership chain --------------------------------------------

\* C18: every recap, award and award-winner row reaches exactly one user
\* through its foreign keys (the user_id of a recap or an award is the owner
\* of the league it references), and the rows a user can read or write are
\* rows whose one owner is that user.
C18_OneOwner ==
    /\ \A r \in dRecaps \cup dAwards : DRowOwners(r) = {r.user}
    /\ \A w \in dWinners : Cardinality(DWinnerOwners(w)) = 1
    /\ \A u \in Users :
          /\ \A r \in DVisibleRecaps(u) \cup DVisibleAwards(u) : DRowOwners(r) = {u}
          /\ \A w \in DVisibleWinners(u) : DWinnerOwners(w) = {u}


\* ---- properties of useLeagueSyncWebSocket -----------------------------------------

\* C21: once every delivered message has been rendered, syncStatuses holds,
\* for each league, the data of the last league_sync_update delivered for
\* it; and a message of another type, or one that does not parse, leaves
\* syncStatuses as it was.
C21_SyncStatuses ==
    /\ [](lLast = lNext => lSync = lSeen)
    /\ [][lSeen' = lSeen => (lSync' = lSync \/ lLast' # lLast)]_vars
    /\ [][(lLast' # lLast /\ lNext.type # "league_sync_update") => lSync' = lSync]_vars


C23_MarkdownClean ==
    \A e \in xExports :
        /\ ~ \E i, j \in 1..Len(e.out) :
                 i < j /\ e.out[i] = "<" /\ e.out[j] = ">"
        /\ ~ \E i \in 1..(Len(e.out) - 2) :
                 e.out[i] = "\n" /\ e.out[i + 1] = "\n" /\ e.out[i + 2] = "\n"
        /\ e.out # <<>> => (e.out[1] \notin XWhite /\ e.out[Len(e.out)] \notin XWhite)


\* A document with a heading, bold and italic text has been exported under
\* the title T: every substitution of the chain has acted, in its order.
C23_Witness ==
    \E e \in xExports :
        /\ e.doc \in XRichDocs
        /\ e.options.includeTitle /\ e.options.title = <<"T">>
        /\ e.out = <<"#", " ", "T", "\n", "\n", 
                   "#", "#", " ", "H", "\n", "a", "*", "*", "*", "*", "b", "*", "*", "*", "*", "*", "*", "c", "*", "*">>



\* ---- quiescence of the fetch hook ---------------------------------------------------

\* The response of the page being shown is stored and no request is in
\* flight.
PStored ==
    /\ pReqs = <<>>
    /\ ~pState.loading
    /\ pState.data # NoData
    /\ pState.data.page = pPage

\* C24: with currentPage unchanged, once the response has been stored no
\* further GET /recaps is issued until the page changes (Next, Previous) or
\* refetch() is called.
C24_Quiescent ==
    [][(PStored /\ Len(pReqs') > Len(pReqs))
          => (PNextClick \/ PPrevClick \/ PRetryClick)]_vars



\* ---- overlapping requests of useApi -------------------------------------------------

\* The call of fetchData made last has settled.
ALastSettled == ACalls > 0 /\ \A k \in 1..Len(aReqs) : ~aReqs[k].last

\* C25: loading is not false while a request is in flight, and once the
\* request issued last has settled, the response of an earlier request that
\* arrives after it does not replace the state: the state after all requests
\* have completed is the one of the request issued last.
C25_LastIssuedWins ==
    /\ [](aReqs # <<>> => aState.loading)
    /\ [][\A i \in 1..Len(aReqs) : \A r \in Responses \cup Rejections :
            (ALastSettled /\ AFetchSettled(i, r)) => aState' = aState]_vars



\* ---- edits made while a save is in flight -------------------------------------------

\* C26: when a save succeeds, hasUnsavedChanges becomes false only if the
\* title and content passed to that save are the current ones: an edit made
\* while the save was in flight is still reported as unsaved.
C26_UnsavedAfterEditDuringSave ==
    [][\A i \in 1..Len(eSaves) :
          (/\ ESaveSettle(i, TRUE)
           /\ (eSaves[i].title # en.title \/ eSaves[i].content # en.editorState))
             => en'.hasUnsavedChanges]_vars



\* ---- events of a socket that is no longer the current one ---------------------------

\* C27: isConnected is true exactly when the socket wsRef holds is open, and
\* an open or close event of a socket that wsRef no longer holds changes
\* neither isConnected nor the reconnect counter.
C27_CurrentSocketOnly ==
    /\ [](wMounted => (wState.isConnected <=> WRefOpen(WWorld)))
    /\ [][\A id \in 1..Len(wSockets) : \A code \in {CloseClean, CloseAbnormal} :
            (id # wRef /\ (WOpens(id) \/ WCloses(id, code)))
               => /\ wState'.isConnected = wState.isConnected
                  /\ wCount' = wCount]_vars



\* ---- the page of the recap list -----------------------------------------------------

\* Math.max(1, Math.ceil(totalRecaps / pageSize)): the last page of the list
\* the component holds.
PLastPage ==
    IF totalRecaps = 0 THEN 1 ELSE (totalRecaps + PageSize - 1) \div PageSize

\* C28: while RecapsOverview holds a list response, currentPage is within
\* 1 .. max(1, ceil(count / 6)), count being the count of that response.
C28_PageInRange ==
    pState.data # NoData => (1 <= pPage /\ pPage <= PLastPage)



\* ---- the poll interval of the popup -------------------------------------------------

\* The number of poll intervals that are running.
YPolling == Len(SelectSeq(yAttempts, LAMBDA a : a.poll))

\* C29: every poll interval connectYahoo started is cleared in the end; the
\* tick that finds the popup closed clears its interval, the fallback timer
\* clears the interval of its attempt and leaves the popup closed, and the
\* step that clears an interval leaves connectingYahoo false.
C29_PollCleared ==
    /\ <>[](YPolling = 0)
    /\ [][\A a \in 1..Len(yAttempts) :
            /\ YPollTick(a) => YPolling' = YPolling - 1
            /\ YFallback(a) =>
                 /\ YPolling' = YPolling - (IF yAttempts[a].poll THEN 1 ELSE 0)
                 /\ yWindows'[yAttempts[a].win] = "closed"]_vars
    /\ [][YPolling' < YPolling => ~yn'.connectingYahoo]_vars

\* The popup was closed and the tick has cleared the interval while the
\* 5-minute timer of the attempt is still armed.
C29_Witness ==
    /\ Len(yAttempts) = 1
    /\ ~yAttempts[1].poll /\ yAttempts[1].fallback
    /\ yWindows[yAttempts[1].win] = "closed"
    /\ ~yn.connectingYahoo



\* ---- the state of useApi ------------------------------------------------------------

\* C30: data and error are never both non-null, and error is null whenever
\* loading is true.
C30_DataOrError ==
    /\ ~(aState.data # NULL /\ aState.error # NoError)
    /\ aState.loading => aState.error = NoError

\* The first request has failed and a second one, started after it, is in
\* flight: loading is true again and the error is reset.
C30_Witness ==
    /\ ACalls = 2
    /\ Len(aReqs) = 1 /\ aReqs[1].last
    /\ aState.loading
    /\ aState.data = NULL /\ aState.error = NoError

=============================================================================
